---------------------------- MODULE Spec2Model ----------------------------
(***************************************************************************)
(* Model of the CollecTF Selenium downloader                               *)
(* (src/download_tf_family_psfms.py): the progress store (the progress     *)
(* JSON document and the completed-family ledger), family and work-item    *)
(* discovery, and the serial crawl loop with its restarts.                 *)
(*                                                                         *)
(* Strings of the program are tuples of one-character strings, so that     *)
(* strip(), lower(), replace() and the name filters are computed, not      *)
(* assumed.  Timestamps (time.time()) are not modelled: nothing the        *)
(* program decides reads them back.                                        *)
(***************************************************************************)
EXTENDS Integers, Sequences, FiniteSets, TLC

VARIABLES
    progress_file,         \* download_progress.json on disk
    completed_file,        \* completed_tfs.txt on disk (the ledger)
    pc,                    \* where the process is: start, families, items, back, finish,
                           \* closing, exited (crashed: an exception left main())
    run,                   \* number of the current process run
    driver,                \* the browser session: "open", "quit" or "quit_failed"
    max_tfs,               \* the cap given to find_and_click_tf_family_links (NoCap: None)
    completed_tfs,         \* load_progress()[0] of this run
    progress_data,         \* load_progress()[1] of this run
    tf_links,              \* names of the families selected for processing
    i,                     \* index of the family loop (1-based)
    view_links,            \* work items found on the current family page
    j,                     \* index of the item loop (1-based)
    family_results,        \* family_results of process_tf_species_page
    species_downloads,     \* successful_downloads of process_tf_species_page
    successful_downloads,  \* successful_downloads of find_and_click_tf_family_links
    item_exc,              \* history: where the last item step raised ("none", "get", "back")
    family_exc,            \* history: how the last family iteration failed
                           \* ("none", "not_found", "click", "page")
    listing_ok,            \* whether the last navigate_to_tf_families_page returned True
    failed_now,            \* history: work items that ended Failed in this run
    failed_before,         \* history: work items that ended Failed in an earlier run
    downloaded_now,        \* history: a work item ended Completed in this run
    main_log,              \* what main() logged about the run ("none": nothing yet)
    all_links,             \* the link texts of the listing page, in page order
    calls,                 \* number of store operations applied (store specification)
    recorded,              \* history: names given to save_progress(name, "completed")
    load_info,             \* the last load_progress of the store specification
    sum_in,                \* inputs of get_resume_summary (summary specification)
    sum_out,               \* its result, and the files it wrote to
    sum_calls,             \* number of times it was applied to sum_in
    pending,               \* the document a store operation is writing (write specification)
    download_dir,          \* temp_downloads: the files in it, oldest first (report specification)
    matrices_dir,          \* matrices/: file name -> content
    metadata_dir,          \* metadata/: file name -> metadata document
    report,                \* history: the last process_motif_report_page and what it did
    attempts               \* number of work items processed (report specification)

vars == << progress_file, completed_file, pc, run, driver, max_tfs,
           completed_tfs, progress_data, tf_links, i, view_links, j,
           family_results, species_downloads, successful_downloads,
           item_exc, family_exc, listing_ok, failed_now, failed_before,
           downloaded_now, main_log, all_links,
           calls, recorded, load_info, sum_in, sum_out, sum_calls,
           pending, download_dir, matrices_dir, metadata_dir, report, attempts >>

crawl_vars == << pc, run, driver, max_tfs, tf_links, i, view_links, j,
                 family_results, species_downloads, successful_downloads,
                 item_exc, family_exc, listing_ok, failed_now, failed_before,
                 downloaded_now, main_log, all_links >>

summary_vars == << sum_in, sum_out, sum_calls >>

write_vars == << pending >>

report_vars == << download_dir, matrices_dir, metadata_dir, report, attempts >>

-----------------------------------------------------------------------------
(* Bounds of the model *)

\* number of process runs (a first run and its restarts)
MaxRuns == 2

\* number of store operations applied in the store specification
MaxCalls == 3

\* number of work items processed in the report specification
MaxAttempts == 2

\* length of the discovered name lists given to get_resume_summary
MaxLen == 4

-----------------------------------------------------------------------------
(* Strings *)

UC == << "A","B","C","D","E","F","G","H","I","J","K","L","M",
         "N","O","P","Q","R","S","T","U","V","W","X","Y","Z" >>

LC == << "a","b","c","d","e","f","g","h","i","j","k","l","m",
         "n","o","p","q","r","s","t","u","v","w","x","y","z" >>

Digits == { "0","1","2","3","4","5","6","7","8","9" }

Range(s) == { s[k] : k \in 1..Len(s) }

Letters == Range(UC) \cup Range(LC)

IsLetter(c) == c \in Letters

\* str.lower(), one character
LowerChar(c) ==
    IF c \in Range(UC) THEN LC[CHOOSE k \in 1..26 : UC[k] = c] ELSE c

\* str.lower()
Lower(s) == [ k \in 1..Len(s) |-> LowerChar(s[k]) ]

IsSpace(c) == c \in { " ", "\n", "\t" }

RECURSIVE LStrip(_)
LStrip(s) ==
    IF s # << >> /\ IsSpace(Head(s)) THEN LStrip(Tail(s)) ELSE s

RECURSIVE RStrip(_)
RStrip(s) ==
    IF s # << >> /\ IsSpace(s[Len(s)]) THEN RStrip(SubSeq(s, 1, Len(s) - 1)) ELSE s

\* str.strip()
Strip(s) == RStrip(LStrip(s))

\* str.replace(" ", "_")
ReplaceSpaces(s) == [ k \in 1..Len(s) |-> IF s[k] = " " THEN "_" ELSE s[k] ]

-----------------------------------------------------------------------------
(* Mappings (Python dicts) *)

EmptyMap == << >>

\* an assignment that drops every other key of the mapping
PutAlone(m, k, v) == [ x \in {k} |-> v ]

Put(m, k, v) == [ x \in (DOMAIN m) \cup {k} |-> IF x = k THEN v ELSE m[x] ]

-----------------------------------------------------------------------------
(* The site: what the browser shows.  The listing page and the family     *)
(* pages are the same in every run.                                        *)

\* a family with two work items
FamA == << "A","r","a","C","/","X","y","l","S" >>

\* a family with one work item
FamB == << "L","e","x","A" >>

\* a family whose page gives no names for its two work items
FamC == << "F","u","r" >>

TfAraC == << "A","r","a","C" >>

TfXylS == << "X","y","l","S" >>

TfLexA == << "L","e","x","A" >>

SpEcoli == << "E",".","c","o","l","i" >>

SpPputida == << "P",".","p","u","t","i","d","a" >>

\* a species name of five characters
SpBsub == << "B",".","s","u","b" >>

\* the species fallback of process_tf_species_page
Unknown == << "U","n","k","n","o","w","n" >>

TextHome == << "H","o","m","e" >>

TextView == << "v","i","e","w" >>

TextViewUC == << "V","i","e","w" >>

\* the link texts of the TF families listing page, in page order
ListingLinks == << TextHome, FamA, FamB, << "2" >> >>

\* the links of a family page: the link text, whether the href holds
\* "view_motif_reports_by_TF_and_species", whether it holds the two numeric
\* ids, the ids, and the texts of the td cells of the link's table row
FamilyPage(tf_name) ==
    IF tf_name = FamA
    THEN << [ text |-> TextHome, href_view |-> FALSE, href_ids |-> FALSE,
              tf_id |-> 0, species_id |-> 0, cells |-> << >> ],
            [ text |-> TextView, href_view |-> TRUE, href_ids |-> TRUE,
              tf_id |-> 1, species_id |-> 10,
              cells |-> << TfAraC, SpEcoli, TextView >> ],
            [ text |-> TextViewUC, href_view |-> TRUE, href_ids |-> TRUE,
              tf_id |-> 2, species_id |-> 20,
              cells |-> << TfXylS, SpPputida, TextView >> ] >>
    ELSE IF tf_name = FamB
    THEN << [ text |-> TextView, href_view |-> TRUE, href_ids |-> TRUE,
              tf_id |-> 3, species_id |-> 10,
              cells |-> << TfLexA, SpEcoli, TextView >> ] >>
    ELSE IF tf_name = FamC
    THEN << [ text |-> TextView, href_view |-> TRUE, href_ids |-> TRUE,
              tf_id |-> 4, species_id |-> 10, cells |-> << >> ],
            [ text |-> TextView, href_view |-> TRUE, href_ids |-> TRUE,
              tf_id |-> 4, species_id |-> 30,
              cells |-> << FamC, SpBsub, TextView >> ] >>
    ELSE << >>

-----------------------------------------------------------------------------
(* Family discovery *)

skip_words ==
    { << "b","r","o","w","s","e" >>,
      << "s","e","a","r","c","h" >>,
      << "a","b","o","u","t" >>,
      << "h","o","m","e" >>,
      << "v","i","e","w" >>,
      << "m","o","r","e" >>,
      << "h","e","r","e" >>,
      << "f","e","e","d","b","a","c","k" >>,
      << "s","t","a","t","s" >>,
      << "l","i","n","k","s" >>,
      << "c","i","t","e" >>,
      << "c","o","n","t","r","i","b","u","t","e" >>,
      << "c","o","m","p","a","r","e" >>,
      << "r","e","g","i","s","t","e","r" >>,
      << "l","o","g","i","n" >>,
      << "q","u","i","c","k" >>,
      << "h","e","l","p" >>,
      << "c","o","n","t","a","c","t" >> }

\* re.match(r"^[A-Za-z][A-Za-z0-9/]{1,15}$", text)
IsTFLikeName(text) ==
    /\ Len(text) >= 2
    /\ Len(text) <= 16
    /\ IsLetter(text[1])
    /\ \A k \in 2..Len(text) :
          IsLetter(text[k]) \/ text[k] \in Digits \/ text[k] = "/"

\* the test of one link in the loop of find_and_click_tf_family_links
KeepLink(raw) ==
    LET text == Strip(raw)
    IN  /\ ~ (Len(text) < 2 \/ Len(text) > 20)
        /\ Lower(text) \notin skip_words
        /\ IsTFLikeName(text)

RECURSIVE TFLinkNames(_)
TFLinkNames(links) ==
    IF links = << >> THEN << >>
    ELSE (IF KeepLink(Head(links)) THEN << Strip(Head(links)) >> ELSE << >>)
         \o TFLinkNames(Tail(links))

\* the remaining list built with insert(0, tf): discovery order is reversed
RECURSIVE RemainingReversed(_, _)
RemainingReversed(all_tf_names, completed) ==
    IF all_tf_names = << >> THEN << >>
    ELSE RemainingReversed(Tail(all_tf_names), completed)
         \o (IF Head(all_tf_names) \notin completed
             THEN << Head(all_tf_names) >> ELSE << >>)

\* remaining = [tf for tf in all_tf_names if tf not in completed_tfs]
RECURSIVE Remaining(_, _)
Remaining(all_tf_names, completed) ==
    IF all_tf_names = << >> THEN << >>
    ELSE (IF Head(all_tf_names) \notin completed
          THEN << Head(all_tf_names) >> ELSE << >>)
         \o Remaining(Tail(all_tf_names), completed)

\* tf_links = [tf for tf in tf_links if tf["name"] in remaining_tf_names]
RECURSIVE KeepRemaining(_, _)
KeepRemaining(names, remaining) ==
    IF names = << >> THEN << >>
    ELSE (IF Head(names) \in Range(remaining) THEN << Head(names) >> ELSE << >>)
         \o KeepRemaining(Tail(names), remaining)

\* max_tfs=None, the default of download_all_tf_families
NoCap == -1

\* a cap that keeps the last max_tfs names
CapFromEnd(names, cap) ==
    IF cap = NoCap THEN names
    ELSE SubSeq(names, IF cap < Len(names) THEN Len(names) - cap + 1 ELSE 1, Len(names))

\* if max_tfs is not None: tf_links = tf_links[:max_tfs]
Cap(names, cap) ==
    IF cap = NoCap THEN names
    ELSE SubSeq(names, 1, IF cap < Len(names) THEN cap ELSE Len(names))

-----------------------------------------------------------------------------
(* Work-item discovery on a family page *)

\* "view" in text: substring test
Contains(s, sub) ==
    \E k \in 0..(Len(s) - Len(sub)) : SubSeq(s, k + 1, k + Len(sub)) = sub

\* the test of one link in the first loop of process_tf_species_page
IsViewLink(link) ==
    /\ Contains(Lower(Strip(link.text)), TextView)
    /\ link.href_view
    /\ link.href_ids

\* the view_links entry built for one link: the individual name falls back to
\* the family name, the species name to "Unknown"
ViewLinkOf(link, tf_name) ==
    LET cells == link.cells
        tf_cell_text == IF Len(cells) >= 3 THEN Strip(cells[1]) ELSE << >>
        species_cell_text == IF Len(cells) >= 3 THEN Strip(cells[2]) ELSE << >>
    IN  [ tf_name |-> IF tf_cell_text # << >> /\ Len(tf_cell_text) < 20
                      THEN tf_cell_text ELSE tf_name,
          tf_family |-> tf_name,
          tf_id |-> link.tf_id,
          species_name |-> IF species_cell_text # << >> /\ Len(species_cell_text) > 5
                           THEN species_cell_text ELSE Unknown,
          species_id |-> link.species_id ]

RECURSIVE ViewLinksOf(_, _)
ViewLinksOf(links, tf_name) ==
    IF links = << >> THEN << >>
    ELSE (IF IsViewLink(Head(links))
          THEN << ViewLinkOf(Head(links), tf_name) >> ELSE << >>)
         \o ViewLinksOf(Tail(links), tf_name)

ViewLinks(tf_name) == ViewLinksOf(FamilyPage(tf_name), tf_name)

-----------------------------------------------------------------------------
(* The progress store *)

\* A file is a record: kind "missing" (no such file), "corrupt" (it exists
\* and reading or parsing it raises) or a readable file with its content.
MissingProgress == [ kind |-> "missing", data |-> EmptyMap ]

CorruptProgress == [ kind |-> "corrupt", data |-> EmptyMap ]

MissingLedger == [ kind |-> "missing", lines |-> << >> ]

CorruptLedger == [ kind |-> "corrupt", lines |-> << >> ]

\* the details of a family entry: which keys the dict holds, and the work-item
\* records under "motif_reports"
NoDetails == [ error |-> FALSE, has_reports |-> FALSE, motif_reports |-> EmptyMap ]

ErrorDetails == [ error |-> TRUE, has_reports |-> FALSE, motif_reports |-> EmptyMap ]

\* the details argument of save_motif_progress: None, or a dict with "tf_family"
NoMotifDetails == [ has_family |-> FALSE, tf_family |-> << >> ]

MotifDetails(tf_family) == [ has_family |-> TRUE, tf_family |-> tf_family ]

\* json.load of the progress file inside try/except ... pass
ReadProgressOrEmpty(pf) == IF pf.kind = "dict" THEN pf.data ELSE EmptyMap

\* the lines of the ledger as the file iterator gives them
LedgerLine(tf_name) == tf_name \o << "\n" >>

\* with open(completed_file, "a") as f: f.write(f"{tf_name}\n")
AppendLedger(cf, tf_name) ==
    IF cf.kind = "corrupt" THEN cf
    ELSE [ kind |-> "text", lines |-> Append(cf.lines, LedgerLine(tf_name)) ]

\* save_progress: the files after the call
SaveProgress(pf, cf, tf_name, status, details) ==
    LET data == ReadProgressOrEmpty(pf)
        entry == [ status |-> status, details |-> details ]
    IN  [ progress_file |-> [ kind |-> "dict", data |-> Put(data, tf_name, entry) ],
          completed_file |-> IF status = "completed"
                             THEN AppendLedger(cf, tf_name) ELSE cf ]

\* motif_key = f"{tf_name}_{species_name}".replace(" ", "_")
MotifKey(tf_name, species_name) ==
    ReplaceSpaces(tf_name \o << "_" >> \o species_name)

AllCompleted(motif_reports) ==
    \A k \in DOMAIN motif_reports : motif_reports[k].status = "completed"

\* the family entry save_motif_progress writes for one work-item outcome
MotifEntry(data, tf_family, tf_name, species_name, status, details) ==
    LET old == IF tf_family \in DOMAIN data
               THEN data[tf_family]
               ELSE [ status |-> "in_progress",
                      details |-> [ error |-> FALSE, has_reports |-> TRUE,
                                    motif_reports |-> EmptyMap ] ]
        reports == Put(old.details.motif_reports,
                       MotifKey(tf_name, species_name),
                       [ tf_name |-> tf_name, species_name |-> species_name,
                         status |-> status, details |-> details ])
    IN  [ status |-> IF AllCompleted(reports) THEN "completed" ELSE old.status,
          details |-> [ error |-> old.details.error, has_reports |-> TRUE,
                        motif_reports |-> reports ] ]

MotifFamily(tf_name, details) ==
    IF details.has_family THEN details.tf_family ELSE tf_name

\* save_motif_progress that also writes the family into the ledger
SaveMotifProgressAndLedger(pf, cf, tf_name, species_name, status, details) ==
    LET data == ReadProgressOrEmpty(pf)
        tf_family == MotifFamily(tf_name, details)
        entry == MotifEntry(data, tf_family, tf_name, species_name, status, details)
    IN  [ progress_file |-> [ kind |-> "dict", data |-> Put(data, tf_family, entry) ],
          completed_file |-> AppendLedger(cf, tf_family) ]

\* save_motif_progress: the files after the call (the ledger is not written)
SaveMotifProgress(pf, cf, tf_name, species_name, status, details) ==
    LET data == ReadProgressOrEmpty(pf)
        tf_family == MotifFamily(tf_name, details)
        entry == MotifEntry(data, tf_family, tf_name, species_name, status, details)
    IN  [ progress_file |-> [ kind |-> "dict", data |-> Put(data, tf_family, entry) ],
          completed_file |-> cf ]

\* set(line for line in f if line.strip()): the line ends are kept
LedgerNamesUnstripped(cf) ==
    { cf.lines[k] : k \in { n \in 1..Len(cf.lines) : Strip(cf.lines[n]) # << >> } }

\* set(line.strip() for line in f if line.strip())
LedgerNames(cf) ==
    { Strip(cf.lines[k]) : k \in { n \in 1..Len(cf.lines) : Strip(cf.lines[n]) # << >> } }

\* load_progress without the try/except around json.load
LoadProgressUnguarded(pf, cf) ==
    [ completed_tfs |-> IF cf.kind = "text" THEN LedgerNames(cf) ELSE {},
      progress_data |-> pf.data,
      raised |-> pf.kind = "corrupt" ]

\* load_progress: a missing file is skipped, and an exception while reading
\* or parsing a file is caught and leaves the initial empty value
LoadProgress(pf, cf) ==
    [ completed_tfs |-> IF cf.kind = "text" THEN LedgerNames(cf) ELSE {},
      progress_data |-> IF pf.kind = "dict" THEN pf.data ELSE EmptyMap,
      raised |-> FALSE ]

\* a get_resume_summary that takes the completed names out of all_tf_names
\* itself (all_tf_names.remove(tf)) instead of building a new list
ResumeSummaryInPlace(completed, all_tf_names, data) ==
    [ raised |-> (completed # {} \/ DOMAIN data # {}) /\ Len(all_tf_names) = 0,
      remaining |-> Remaining(all_tf_names, completed),
      completed_tfs |-> completed,
      all_tf_names |-> Remaining(all_tf_names, completed),
      progress_data |-> data,
      written |-> {} ]

\* get_resume_summary: the remaining list, unless the progress percentage
\* divides by len(all_tf_names) = 0; its three arguments after the call, and
\* the files it wrote to (of the progress file, the ledger and the family
\* results log).  The method builds the remaining list and the sorted list
\* of the completed names as new lists, assigns to no element of an argument
\* and opens no file: it only logs
ResumeSummary(completed, all_tf_names, data) ==
    [ raised |-> (completed # {} \/ DOMAIN data # {}) /\ Len(all_tf_names) = 0,
      remaining |-> Remaining(all_tf_names, completed),
      completed_tfs |-> completed,
      all_tf_names |-> all_tf_names,
      progress_data |-> data,
      written |-> {} ]

-----------------------------------------------------------------------------
(* The motif report page: process_motif_report_page, wait_for_download and *)
(* save_psfm_content                                                       *)

\* the texts the method looks for
TextExportData ==
    << "E","x","p","o","r","t"," ","d","a","t","a" >>

PatternRawFasta ==
    << "D","o","w","n","l","o","a","d"," ","P","S","F","M"," ","(","r","a",
       "w","-","F","A","S","T","A",")" >>

PatternPsfm ==
    << "D","o","w","n","l","o","a","d"," ","P","S","F","M" >>

psfm_patterns == << PatternRawFasta, PatternPsfm >>

psfm_text ==
    << "D","o","w","n","l","o","a","d"," ","P","o","s","i","t","i","o","n",
       "-","S","p","e","c","i","f","i","c","-","F","r","e","q","u","e","n",
       "c","y","-","M","a","t","r","i","x"," ","o","f"," ","t","h","e"," ",
       "m","o","t","i","f"," ","i","n"," ","r","a","w"," ","F","A","S","T",
       "A"," ","f","o","r","m","a","t" >>

TextRawFastaFormat ==
    << "r","a","w"," ","F","A","S","T","A"," ","f","o","r","m","a","t" >>

download_words ==
    { << "d","o","w","n","l","o","a","d" >>, << "p","s","f","m" >>,
      << "f","a","s","t","a" >> }

\* texts of the modelled pages
TextTransfac ==
    << "D","o","w","n","l","o","a","d"," ","P","S","F","M"," ","(","T","R",
       "A","N","S","F","A","C",")" >>

TextDownloadButton ==
    << "D","o","w","n","l","o","a","d" >>

TextShortCell ==
    << "M","a","t","r","i","x"," ","i","n"," ","r","a","w"," ","F","A","S",
       "T","A"," ","f","o","r","m","a","t" >>

TextSites ==
    << "S","i","t","e","s" >>

\* An element of a page: its text, and the texts of the clickable elements
\* (input[type=submit], button, a) of its ancestor table row, if it has one
ElementOf(text, row) == [ text |-> text, row |-> row ]

\* A page: whether its source contains "Export data" and
\* "csrfmiddlewaretoken", its links and its table cells, in document order
PageNoExportData ==
    [ export_data |-> FALSE, csrf |-> TRUE,
      links |-> << ElementOf(TextHome, << >>), ElementOf(PatternRawFasta, << >>) >>,
      cells |-> << >> ]

PageNoToken ==
    [ export_data |-> TRUE, csrf |-> FALSE,
      links |-> << ElementOf(TextExportData, << >>),
                   ElementOf(PatternRawFasta, << >>) >>,
      cells |-> << >> ]

PageDirectLink ==
    [ export_data |-> TRUE, csrf |-> TRUE,
      links |-> << ElementOf(TextHome, << >>), ElementOf(TextExportData, << >>),
                   ElementOf(PatternRawFasta, << >>) >>,
      cells |-> << >> ]

PagePartialLink ==
    [ export_data |-> TRUE, csrf |-> TRUE,
      links |-> << ElementOf(TextExportData, << >>), ElementOf(TextTransfac, << >>) >>,
      cells |-> << >> ]

PageCell ==
    [ export_data |-> TRUE, csrf |-> TRUE,
      links |-> << ElementOf(TextHome, << >>) >>,
      cells |-> << ElementOf(TextSites, << >>),
                   ElementOf(psfm_text, << TextDownloadButton >>) >> ]

PageShortCell ==
    [ export_data |-> TRUE, csrf |-> TRUE,
      links |-> << ElementOf(TextHome, << >>), ElementOf(TextExportData, << >>) >>,
      cells |-> << ElementOf(TextShortCell, << >>) >> ]

PageNoControl ==
    [ export_data |-> TRUE, csrf |-> TRUE,
      links |-> << ElementOf(TextHome, << >>), ElementOf(TextExportData, << >>) >>,
      cells |-> << ElementOf(TextSites, << >>) >> ]

\* the two download links lie in one table row, the TRANSFAC link first
PageRowLinks ==
    [ export_data |-> TRUE, csrf |-> TRUE,
      links |-> << ElementOf(TextExportData, << >>),
                   ElementOf(TextTransfac, << TextTransfac, PatternRawFasta >>),
                   ElementOf(PatternRawFasta, << TextTransfac, PatternRawFasta >>) >>,
      cells |-> << >> ]

ReportPages ==
    << PageNoExportData, PageNoToken, PageDirectLink, PagePartialLink, PageCell,
       PageShortCell, PageNoControl, PageRowLinks >>

\* the page has export functionality if either marker is in its source
HasExportEither(page) == page.export_data \/ page.csrf

\* export_indicators["Export data"] and export_indicators["csrfmiddlewaretoken"]
HasExport(page) == page.export_data /\ page.csrf

\* the index of the first element that passes the test, 0 if there is none;
\* hits[k] tells whether the k-th element passes
FirstIndex(hits) ==
    IF \E k \in 1..Len(hits) : hits[k]
    THEN CHOOSE k \in 1..Len(hits) :
             /\ hits[k]
             /\ \A m \in 1..(k - 1) : ~ hits[m]
    ELSE 0

\* find_element(By.LINK_TEXT, pattern)
FindLinkText(links, pattern) ==
    FirstIndex([ k \in 1..Len(links) |-> links[k].text = pattern ])

\* find_element(By.PARTIAL_LINK_TEXT, pattern)
FindPartialLinkText(links, pattern) ==
    FirstIndex([ k \in 1..Len(links) |-> Contains(links[k].text, pattern) ])

\* the scan of all links: a non-empty text that contains a pattern
ScanLinks(links) ==
    LET Test(e) == /\ Strip(e.text) # << >>
                   /\ \E k \in 1..Len(psfm_patterns) :
                          Contains(Strip(e.text), psfm_patterns[k])
    IN  FirstIndex([ k \in 1..Len(links) |-> Test(links[k]) ])

\* find_element(By.XPATH, "//td[contains(text(), '...')]")
FindCell(cells, text) ==
    FirstIndex([ k \in 1..Len(cells) |-> Contains(cells[k].text, text) ])

NoElement == ElementOf(<< >>, << >>)

\* the element strategy n resolves on the page, as the index of the element
\* among the links (strategies 1 to 5) or the cells (6 and 7); 0: none
StrategyIndex(page, n) ==
    CASE n = 1 -> FindLinkText(page.links, psfm_patterns[1])
      [] n = 2 -> FindPartialLinkText(page.links, psfm_patterns[1])
      [] n = 3 -> FindLinkText(page.links, psfm_patterns[2])
      [] n = 4 -> FindPartialLinkText(page.links, psfm_patterns[2])
      [] n = 5 -> ScanLinks(page.links)
      [] n = 6 -> FindCell(page.cells, psfm_text)
      [] n = 7 -> FindCell(page.cells, TextRawFastaFormat)

\* the strategies in their order: for each pattern the exact link text, then
\* the partial link text; then the scan of all links; then the table cell
\* with the full sentence; then a table cell with "raw FASTA format".
\* strategy 0: nothing was found
FindPsfmLink(page) ==
    LET links == page.links
        cells == page.cells
        Found(n, elements, k) == [ strategy |-> n, element |-> elements[k] ]
    IN  IF FindLinkText(links, psfm_patterns[1]) # 0
        THEN Found(1, links, FindLinkText(links, psfm_patterns[1]))
        ELSE IF FindPartialLinkText(links, psfm_patterns[1]) # 0
        THEN Found(2, links, FindPartialLinkText(links, psfm_patterns[1]))
        ELSE IF FindLinkText(links, psfm_patterns[2]) # 0
        THEN Found(3, links, FindLinkText(links, psfm_patterns[2]))
        ELSE IF FindPartialLinkText(links, psfm_patterns[2]) # 0
        THEN Found(4, links, FindPartialLinkText(links, psfm_patterns[2]))
        ELSE IF ScanLinks(links) # 0
        THEN Found(5, links, ScanLinks(links))
        ELSE IF FindCell(cells, psfm_text) # 0
        THEN Found(6, cells, FindCell(cells, psfm_text))
        ELSE IF FindCell(cells, TextRawFastaFormat) # 0
        THEN Found(7, cells, FindCell(cells, TextRawFastaFormat))
        ELSE [ strategy |-> 0, element |-> NoElement ]

\* the element that is clicked: the first clickable element of the row whose
\* text contains "download", "psfm" or "fasta", else the element itself
ClickTarget(element) ==
    LET Test(text) == \E word \in download_words : Contains(Lower(text), word)
        k == FirstIndex([ n \in 1..Len(element.row) |-> Test(element.row[n]) ])
    IN  IF k # 0 THEN element.row[k] ELSE element.text

\* what the lookups find on each of the modelled pages: the "Export data"
\* tab (0: none), the download control, and the element that is clicked
PageLookups ==
    [ page \in Range(ReportPages) |->
        [ tab |-> FindPartialLinkText(page.links, TextExportData),
          found |-> FindPsfmLink(page),
          target |-> ClickTarget(FindPsfmLink(page).element) ] ]

\* The contents a download may have, as the file holds them
ContentOne ==
    << ">","m","5","3","9","1","7","\n","1"," ","0"," ","0"," ","0","\n" >>

ContentTwo ==
    << ">","m","8","0","5","8","1","\n","1"," ","0"," ","0"," ","0","\n" >>

ContentThree ==
    << ">","m","1","\n","1"," ","0"," ","0"," ","0","\n" >>

ContentShort ==
    << ">","x","\n","1"," ","0"," ","0"," ","0","\n" >>

\* a file that holds white space only
ContentBlank ==
    << " ","\n" >>

FileContents == { ContentOne, ContentTwo, ContentThree, ContentShort, ContentBlank }

\* hashlib.md5(psfm_content.encode()).hexdigest() of the modelled contents
Md5Hex(psfm_content) ==
    CASE psfm_content = Strip(ContentOne) ->
           << "a","d","b","1","e","c","2","4","3","2","4","0","c","1","3","4","5",
              "4","3","1","9","4","7","0","1","f","5","2","d","e","8","7" >>
      [] psfm_content = Strip(ContentTwo) ->
           << "a","d","b","1","e","c","2","4","d","6","d","4","e","1","8","3","8",
              "4","f","b","8","c","e","d","1","2","f","0","c","7","2","3" >>
      [] psfm_content = Strip(ContentThree) ->
           << "7","e","2","d","e","6","a","5","4","a","a","a","3","9","2","e","d",
              "0","9","b","7","1","d","7","b","8","0","5","1","8","d","0" >>
      [] psfm_content = Strip(ContentShort) ->
           << "6","6","9","0","0","6","d","a","2","5","7","3","4","5","4","1","6",
              "d","9","a","b","2","6","a","3","f","d","0","b","6","e","4" >>
      [] psfm_content = Strip(ContentBlank) ->
           << "d","4","1","d","8","c","d","9","8","f","0","0","b","2","0","4","e",
              "9","8","0","0","9","9","8","e","c","f","8","4","2","7","e" >>

\* psfm_content = f.read().strip(), for each of the modelled contents
StrippedContents == [ content \in FileContents |-> Strip(content) ]

\* A file of temp_downloads as glob and stat show it: mtime is its place in
\* the order of last modification, partial tells whether its name ends in
\* ".crdownload"
DownloadFile(mtime, partial, content) ==
    [ mtime |-> mtime, partial |-> partial, content |-> content ]

\* wait_for_download returns None
NoDownload == DownloadFile(0, FALSE, << >>)

\* glob of the complete files that lie in download_dir, oldest first
Listing(dir) == { DownloadFile(k, FALSE, dir[k]) : k \in 1..Len(dir) }

\* The listings glob returns at the polls of wait_for_download after a
\* click: at the first poll, and at a later poll before the timeout.  The
\* file the click produces is complete at the first poll ("ready"), partial
\* at the first poll and complete later ("late"), partial until the timeout
\* ("stalled"), or there is none ("none")
Polls(dir, download, content) ==
    LET partial == DownloadFile(Len(dir) + 1, TRUE, content)
        complete == DownloadFile(Len(dir) + 1, FALSE, content)
    IN  CASE download = "ready" ->
               << Listing(dir) \cup { complete }, Listing(dir) \cup { complete } >>
          [] download = "late" ->
               << Listing(dir) \cup { partial }, Listing(dir) \cup { complete } >>
          [] download = "stalled" ->
               << Listing(dir) \cup { partial }, Listing(dir) \cup { partial } >>
          [] download = "none" ->
               << Listing(dir), Listing(dir) >>

\* a filter that keeps the partial downloads
AllFiles(files) == files

\* complete_files = [f for f in files if not f.endswith(".crdownload")]
CompleteFiles(files) == { f \in files : ~ f.partial }

\* max(complete_files, key=lambda f: Path(f).stat().st_mtime)
NewestFile(files) == CHOOSE f \in files : \A g \in files : g.mtime <= f.mtime

\* the loop of wait_for_download: the first poll that sees a complete file
\* returns the newest one; None after the last poll
RECURSIVE PollUntilComplete(_)
PollUntilComplete(polls) ==
    IF polls = << >> THEN NoDownload
    ELSE IF CompleteFiles(Head(polls)) # {}
    THEN NewestFile(CompleteFiles(Head(polls)))
    ELSE PollUntilComplete(Tail(polls))

\* wait_for_download after the click.  download_dir holds the contents of
\* the complete files, oldest first.  found: a file is returned; index: its
\* place in dir after the call; own: the complete file the click produced;
\* polls and file: what the polls saw and the file that was returned
WaitForDownload(dir, download, content) ==
    LET polls == Polls(dir, download, content)
        file == PollUntilComplete(polls)
        arrived == download \in { "ready", "late" }
    IN  [ found |-> file # NoDownload,
          index |-> file.mtime,
          dir |-> IF arrived THEN Append(dir, content) ELSE dir,
          own |-> IF arrived THEN DownloadFile(Len(dir) + 1, FALSE, content)
                  ELSE NoDownload,
          polls |-> polls,
          file |-> file ]

\* downloaded_file.unlink()
Unlink(dir, index) ==
    SubSeq(dir, 1, index - 1) \o SubSeq(dir, index + 1, Len(dir))

\* \w of the regular expressions, for the characters of the model
IsWordChar(c) == IsLetter(c) \/ c \in Digits \/ c = "_"

\* re.sub(r"[^\w\-_]", "_", name)
Sanitize(name) ==
    [ k \in 1..Len(name) |->
        IF IsWordChar(name[k]) \/ name[k] = "-" THEN name[k] ELSE "_" ]

\* re.sub(r"[^\w\-_\s]", "_", species_name).replace(" ", "_")
SanitizeSpecies(name) ==
    ReplaceSpaces([ k \in 1..Len(name) |->
        IF IsWordChar(name[k]) \/ name[k] = "-" \/ IsSpace(name[k])
        THEN name[k] ELSE "_" ])

DigitChars == << "0","1","2","3","4","5","6","7","8","9" >>

\* f"{n}" of a non-negative integer
RECURSIVE IntToStr(_)
IntToStr(n) ==
    IF n < 10 THEN << DigitChars[n + 1] >>
    ELSE IntToStr(n \div 10) \o << DigitChars[(n % 10) + 1] >>

\* content_hash = hashlib.md5(psfm_content.encode()).hexdigest()[:8]
ContentHash(psfm_content) == SubSeq(Md5Hex(psfm_content), 1, 8)

\* filename = f"{safe_tf_family}_{safe_tf_name}_{safe_species_name}_"
\*            f"TF{tf_id}_SP{species_id}_selenium_{content_hash}.txt"
PsfmFilename(view_link, psfm_content) ==
    Sanitize(view_link.tf_family) \o << "_" >> \o Sanitize(view_link.tf_name)
        \o << "_" >> \o SanitizeSpecies(view_link.species_name)
        \o << "_","T","F" >> \o IntToStr(view_link.tf_id)
        \o << "_","S","P" >> \o IntToStr(view_link.species_id)
        \o << "_","s","e","l","e","n","i","u","m","_" >>
        \o ContentHash(psfm_content) \o << ".","t","x","t" >>

\* the work items of the report specification
ReportItems == Range(ViewLinks(FamA))

\* two work items whose names fall back to the family name and to "Unknown"
CollidingItems == Range(ViewLinks(FamC))

\* the file names of the modelled work items and contents
PsfmFilenames ==
    [ view_link \in ReportItems \cup CollidingItems,
      content \in { StrippedContents[c] : c \in FileContents } |->
        PsfmFilename(view_link, content) ]

\* metadata_file = self.metadata_dir / f"{filename}.json"
MetadataFilename(filename) == filename \o << ".","j","s","o","n" >>

\* the places where save_psfm_content may raise: opening the matrix file,
\* writing it, before the metadata file is opened (driver.current_url,
\* open), and json.dump into the metadata file
SaveFailures == { "matrix_open", "matrix_write", "metadata_open", "metadata_write" }

\* a file that was opened with mode "w" and not written
Truncated == << >>

\* a metadata file that was opened with mode "w" and not written
TruncatedMetadata ==
    [ parsed |-> FALSE, tf_id |-> 0, species_id |-> 0, filename |-> << >>,
      content_length |-> 0 ]

\* no such file
NoFile == << "?" >>

\* the metadata document (the fields that identify the work item)
Metadata(view_link, filename, psfm_content) ==
    [ parsed |-> TRUE, tf_id |-> view_link.tf_id, species_id |-> view_link.species_id,
      filename |-> filename, content_length |-> Len(psfm_content) ]

\* a save_psfm_content that answers "completed" once the matrix file is
\* written, whatever becomes of the metadata file
SavePsfmContentMatrixOnly(view_link, psfm_content, fail, matrices, metadata) ==
    LET filename == PsfmFilenames[view_link, psfm_content]
        sidecar == MetadataFilename(filename)
    IN  [ result |-> IF fail \in { "matrix_open", "matrix_write" }
                     THEN "failed" ELSE "completed",
          filename |-> filename,
          previous |-> IF filename \in DOMAIN matrices THEN matrices[filename] ELSE NoFile,
          matrices_dir |->
              IF fail = "matrix_open" THEN matrices
              ELSE IF fail = "matrix_write" THEN Put(matrices, filename, Truncated)
              ELSE Put(matrices, filename, psfm_content),
          metadata_dir |->
              IF fail \in { "matrix_open", "matrix_write", "metadata_open" } THEN metadata
              ELSE IF fail = "metadata_write" THEN Put(metadata, sidecar, TruncatedMetadata)
              ELSE Put(metadata, sidecar, Metadata(view_link, filename, psfm_content)) ]

\* save_psfm_content: its result and the directories after it.  An
\* exception at any of its steps is caught and "failed" is returned; what
\* was written before stays
SavePsfmContent(view_link, psfm_content, fail, matrices, metadata) ==
    LET filename == PsfmFilenames[view_link, psfm_content]
        sidecar == MetadataFilename(filename)
    IN  [ result |-> IF fail \in SaveFailures THEN "failed" ELSE "completed",
          filename |-> filename,
          previous |-> IF filename \in DOMAIN matrices THEN matrices[filename] ELSE NoFile,
          matrices_dir |->
              IF fail = "matrix_open" THEN matrices
              ELSE IF fail = "matrix_write" THEN Put(matrices, filename, Truncated)
              ELSE Put(matrices, filename, psfm_content),
          metadata_dir |->
              IF fail \in { "matrix_open", "matrix_write", "metadata_open" } THEN metadata
              ELSE IF fail = "metadata_write" THEN Put(metadata, sidecar, TruncatedMetadata)
              ELSE Put(metadata, sidecar, Metadata(view_link, filename, psfm_content)) ]

\* process_motif_report_page has not been called
NoReport ==
    [ done |-> FALSE, page |-> 0, source_ok |-> FALSE, result |-> "none",
      strategy |-> 0, clicks |-> << >>, waited |-> FALSE, read |-> FALSE,
      saved |-> FALSE, tf_id |-> 0, species_id |-> 0,
      filename |-> << >>, content |-> << >>, previous |-> NoFile,
      polls |-> << >>, returned |-> NoDownload, own |-> NoDownload ]

\* what a call of process_motif_report_page did, and the directories after it
Outcome(result, strategy, clicks, waited, read, dir, matrices, metadata) ==
    [ result |-> result, strategy |-> strategy, clicks |-> clicks,
      waited |-> waited, read |-> read, saved |-> FALSE,
      filename |-> << >>, content |-> << >>, previous |-> NoFile,
      polls |-> << >>, returned |-> NoDownload, own |-> NoDownload,
      download_dir |-> dir, matrices_dir |-> matrices, metadata_dir |-> metadata ]

\* a branch that answers "no_export" when no download link was found
WithoutLinkNoExport(clicks, dir, matrices, metadata) ==
    Outcome("no_export", 0, clicks, FALSE, FALSE, dir, matrices, metadata)

\* the else branch of "if psfm_link": no download link was found
WithoutLink(clicks, dir, matrices, metadata) ==
    Outcome("failed", 0, clicks, FALSE, FALSE, dir, matrices, metadata)

\* a validation that accepts every content that is not empty
IsValidContentNonEmpty(psfm_content) == psfm_content # << >>

\* if psfm_content and len(psfm_content) > 10
IsValidContent(psfm_content) == psfm_content # << >> /\ Len(psfm_content) > 10

\* the end of the "if psfm_link" branch for a valid content: the outcome of
\* save_psfm_content is returned and the downloaded file is unlinked
AfterSave(strategy, clicked, waited, psfm_content, saved) ==
    [ result |-> saved.result, strategy |-> strategy,
      clicks |-> clicked, waited |-> TRUE, read |-> TRUE, saved |-> TRUE,
      filename |-> saved.filename, content |-> psfm_content,
      previous |-> saved.previous,
      polls |-> waited.polls, returned |-> waited.file, own |-> waited.own,
      download_dir |-> Unlink(waited.dir, waited.index),
      matrices_dir |-> saved.matrices_dir,
      metadata_dir |-> saved.metadata_dir ]

\* what follows wait_for_download (waited: what it returned): no file, the
\* read of the file raising, an invalid content, or save_psfm_content
AfterWait(view_link, strategy, clicked, env, waited, matrices, metadata) ==
    LET psfm_content == StrippedContents[waited.dir[waited.index]]
        Failed(read) ==
            [ Outcome("failed", strategy, clicked, TRUE, read,
                      waited.dir, matrices, metadata)
              EXCEPT !.polls = waited.polls, !.returned = waited.file,
                     !.own = waited.own ]
    IN  IF ~ waited.found THEN Failed(FALSE)
        ELSE IF env.fail = "read" THEN Failed(FALSE)
        ELSE IF ~ IsValidContent(psfm_content) THEN Failed(TRUE)
        ELSE AfterSave(strategy, clicked, waited, psfm_content,
                       SavePsfmContent(view_link, psfm_content, env.fail,
                                       matrices, metadata))

\* "if psfm_link": the click, wait_for_download, the read of the file,
\* save_psfm_content and the unlink of the download (found: the lookups of
\* the page)
WithLink(view_link, found, clicks, env, dir, matrices, metadata) ==
    IF env.fail = "click"
    THEN Outcome("failed", found.found.strategy, clicks, FALSE, FALSE,
                 dir, matrices, metadata)
    ELSE AfterWait(view_link, found.found.strategy, Append(clicks, found.target),
                   env, WaitForDownload(dir, env.download, env.content),
                   matrices, metadata)

\* process_motif_report_page.  env.fail names the step that raises ("none":
\* no step does), env.download and env.content what the click downloads
ProcessMotifReportPage(view_link, page, env, dir, matrices, metadata) ==
    LET found == PageLookups[page]
        tab_clicks == IF found.tab # 0 THEN << page.links[found.tab].text >> ELSE << >>
    IN  IF env.fail = "source"
        THEN Outcome("failed", 0, << >>, FALSE, FALSE, dir, matrices, metadata)
        ELSE IF ~ HasExport(page)
        THEN Outcome("no_export", 0, << >>, FALSE, FALSE, dir, matrices, metadata)
        ELSE IF found.tab # 0 /\ env.fail = "tab_click"
        THEN Outcome("failed", 0, << >>, FALSE, FALSE, dir, matrices, metadata)
        ELSE IF found.found.strategy = 0
        THEN WithoutLink(tab_clicks, dir, matrices, metadata)
        ELSE WithLink(view_link, found, tab_clicks, env, dir, matrices, metadata)

-----------------------------------------------------------------------------
(* The crawl: download_all_tf_families, run after run *)

\* the values of the variables of the other specifications
NotLoaded == [ done |-> FALSE, raised |-> FALSE, progress_kind |-> "missing",
               ledger_kind |-> "missing" ]

\* no write of the progress document is under way
NoWrite == [ active |-> FALSE, before |-> MissingProgress, data |-> EmptyMap,
             ledger |-> MissingLedger, op |-> "none", tf_family |-> << >>,
             motif_key |-> << >> ]

StoreIdle == calls = 0 /\ recorded = {} /\ load_info = NotLoaded

SummaryIdle ==
    /\ sum_in = [ completed |-> {}, all_tf_names |-> << >> ]
    /\ sum_out = [ raised |-> FALSE, remaining |-> << >>, written |-> {} ]
    /\ sum_calls = 0

WriteIdle == pending = NoWrite

ReportIdle ==
    /\ download_dir = << >>
    /\ matrices_dir = EmptyMap
    /\ metadata_dir = EmptyMap
    /\ report = NoReport
    /\ attempts = 0

\* a process that has not loaded anything yet
FreshLocals ==
    /\ max_tfs = NoCap
    /\ completed_tfs = {}
    /\ progress_data = EmptyMap
    /\ tf_links = << >>
    /\ i = 1
    /\ view_links = << >>
    /\ j = 1
    /\ family_results = << >>
    /\ species_downloads = 0
    /\ successful_downloads = 0
    /\ item_exc = "none"
    /\ family_exc = "none"
    /\ listing_ok = FALSE

\* the state after CollecTFSeleniumDownloader() in an empty output directory
Init ==
    /\ progress_file = MissingProgress
    /\ completed_file = MissingLedger
    /\ pc = "start"
    /\ run = 1
    /\ driver = "open"
    /\ FreshLocals
    /\ failed_now = {}
    /\ failed_before = {}
    /\ downloaded_now = FALSE
    /\ main_log = "none"
    /\ all_links = ListingLinks
    /\ StoreIdle
    /\ SummaryIdle
    /\ WriteIdle
    /\ ReportIdle

\* the caps a run is started with: None as main() does, or one family
MaxTfsChoices == { NoCap, 1 }

\* the outcomes of process_motif_report_page
MotifReportResults == { "completed", "no_export", "failed" }

\* the status process_tf_species_page persists for a result
PersistedStatus(result) ==
    IF result = "completed" THEN "completed"
    ELSE IF result = "no_export" THEN "no_export"
    ELSE "no_data"

ItemId(view_link) ==
    [ tf_family |-> view_link.tf_family, tf_id |-> view_link.tf_id,
      species_id |-> view_link.species_id ]

ResultEntry(view_link, status) ==
    [ tf_name |-> view_link.tf_name, species_name |-> view_link.species_name,
      status |-> status ]

\* download_all_tf_families up to the family loop: load_progress, the first
\* navigation, and the discovery part of find_and_click_tf_family_links
StartRun ==
    /\ pc = "start"
    /\ \E cap \in MaxTfsChoices, nav_ok \in BOOLEAN, find_ok \in BOOLEAN :
          LET loaded == LoadProgress(progress_file, completed_file)
              all_tf_names == TFLinkNames(all_links)
              summary == ResumeSummary(loaded.completed_tfs, all_tf_names,
                                       loaded.progress_data)
              started == nav_ok /\ find_ok /\ ~ summary.raised
          IN  /\ max_tfs' = cap
              /\ completed_tfs' = loaded.completed_tfs
              /\ progress_data' = loaded.progress_data
              /\ tf_links' = IF started
                             THEN Cap(KeepRemaining(all_tf_names, summary.remaining), cap)
                             ELSE << >>
              /\ pc' = IF started THEN "families" ELSE "finish"
              /\ listing_ok' = nav_ok
    /\ i' = 1
    /\ UNCHANGED << progress_file, completed_file, run, driver, view_links, j,
                    family_results, species_downloads, successful_downloads,
                    item_exc, family_exc, failed_now, failed_before, downloaded_now, main_log, all_links, calls, recorded,
                    load_info, summary_vars, write_vars, report_vars >>

\* one iteration of the family loop up to the call of process_tf_species_page
\* and the discovery of its view links
EnterFamily ==
    /\ pc = "families"
    /\ i <= Len(tf_links)
    /\ LET tf_name == tf_links[i]
       IN  \/ \* every strategy to find the link again raises or finds
              \* nothing: each exception is swallowed, then continue
              /\ i' = i + 1
              /\ family_exc' = "not_found"
              /\ UNCHANGED << progress_file, completed_file, pc, view_links, j,
                              family_results, species_downloads, item_exc,
                              listing_ok >>
           \/ \* click() raises: the except block records the family as error
              \* and calls navigate_to_tf_families_page, which returns False
              \* instead of raising, so that the break after it is never taken
              /\ LET saved == SaveProgress(progress_file, completed_file,
                                           tf_name, "error", ErrorDetails)
                 IN  /\ progress_file' = saved.progress_file
                     /\ completed_file' = saved.completed_file
              /\ i' = i + 1
              /\ family_exc' = "click"
              /\ \E nav_ok \in BOOLEAN : listing_ok' = nav_ok
              /\ UNCHANGED << pc, view_links, j, family_results,
                              species_downloads, item_exc >>
           \/ \* process_tf_species_page raises before its item loop: its own
              \* except block returns 0
              /\ pc' = "back"
              /\ species_downloads' = 0
              /\ view_links' = << >>
              /\ family_results' = << >>
              /\ j' = 1
              /\ item_exc' = "none"
              /\ family_exc' = "page"
              /\ UNCHANGED << progress_file, completed_file, i, listing_ok >>
           \/ \* the view links of the family page are collected
              /\ pc' = "items"
              /\ species_downloads' = 0
              /\ view_links' = ViewLinks(tf_name)
              /\ family_results' = << >>
              /\ j' = 1
              /\ item_exc' = "none"
              /\ family_exc' = "none"
              /\ UNCHANGED << progress_file, completed_file, i, listing_ok >>
    /\ UNCHANGED << run, driver, max_tfs, completed_tfs, progress_data, tf_links,
                    successful_downloads, failed_now, failed_before, downloaded_now, main_log, all_links, calls,
                    recorded, load_info, summary_vars, write_vars, report_vars >>

\* one iteration of the item loop of process_tf_species_page
ProcessItem ==
    /\ pc = "items"
    /\ j <= Len(view_links)
    /\ LET view_link == view_links[j]
       IN  \/ \* driver.get raises: the except block records "failed" in
              \* family_results only
              /\ family_results' = Append(family_results, ResultEntry(view_link, "failed"))
              /\ item_exc' = "get"
              /\ failed_now' = failed_now \cup { ItemId(view_link) }
              /\ UNCHANGED << progress_file, completed_file, species_downloads,
                              downloaded_now >>
           \/ \E result \in MotifReportResults, back_raises \in BOOLEAN :
                 \E saved \in { SaveMotifProgress(progress_file, completed_file,
                                                  view_link.tf_name,
                                                  view_link.species_name,
                                                  PersistedStatus(result),
                                                  MotifDetails(view_link.tf_family)) } :
                 LET tracked == Append(family_results, ResultEntry(view_link, result))
                 IN  /\ progress_file' = saved.progress_file
                     /\ completed_file' = saved.completed_file
                     /\ species_downloads' =
                            IF result = "completed"
                            THEN species_downloads + 1 ELSE species_downloads
                     /\ family_results' =
                            IF back_raises
                            THEN Append(tracked, ResultEntry(view_link, "failed"))
                            ELSE tracked
                     /\ item_exc' = IF back_raises THEN "back" ELSE "none"
                     /\ failed_now' = IF result = "failed"
                                      THEN failed_now \cup { ItemId(view_link) }
                                      ELSE failed_now
                     /\ downloaded_now' = (downloaded_now \/ result = "completed")
    /\ j' = j + 1
    /\ UNCHANGED << pc, run, driver, max_tfs, completed_tfs, family_exc, listing_ok,
                    progress_data, tf_links, i, view_links, successful_downloads,
                    failed_before, main_log, all_links, calls, recorded, load_info, summary_vars, write_vars, report_vars >>

\* the end of process_tf_species_page and the addition of its return value
\* (the family results log is only appended to and is not part of the state)
FinishFamily ==
    /\ pc = "items"
    /\ j > Len(view_links)
    /\ pc' = "back"
    /\ UNCHANGED << progress_file, completed_file, run, driver, max_tfs,
                    completed_tfs, progress_data, tf_links, i, view_links, j,
                    family_results, species_downloads, successful_downloads,
                    item_exc, family_exc, listing_ok, failed_now, failed_before, downloaded_now, main_log, all_links,
                    calls, recorded,
                    load_info, summary_vars, write_vars, report_vars >>

\* successful_downloads += species_downloads, then back to the listing:
\* navigate_to_tf_families_page returns False: break
ReturnToListing ==
    /\ pc = "back"
    /\ successful_downloads' = successful_downloads + species_downloads
    /\ \E nav_ok \in BOOLEAN :
          /\ listing_ok' = nav_ok
          /\ IF nav_ok THEN pc' = "families" /\ i' = i + 1
                       ELSE pc' = "finish" /\ i' = i
    /\ family_exc' = "none"
    /\ UNCHANGED << progress_file, completed_file, run, driver, max_tfs,
                    completed_tfs, progress_data, tf_links, view_links, j,
                    family_results, species_downloads, item_exc, failed_now,
                    failed_before, downloaded_now, main_log, all_links, calls, recorded, load_info, summary_vars, write_vars, report_vars >>

\* what is left of a process after it ended
ExitedLocals ==
    /\ completed_tfs' = {}
    /\ progress_data' = EmptyMap
    /\ tf_links' = << >>
    /\ i' = 1
    /\ view_links' = << >>
    /\ j' = 1
    /\ family_results' = << >>
    /\ species_downloads' = 0
    /\ item_exc' = "none"
    /\ family_exc' = "none"
    /\ listing_ok' = FALSE

\* what main() logs for the return value of download_all_tf_families
MainLog(downloads) == IF downloads > 0 THEN "success" ELSE "no_downloads"

\* the exit status of a process that ended: main() returns None and nothing
\* calls sys.exit, so the status is 0 unless an exception leaves main()
ExitStatus(ended) == IF ended = "crashed" THEN 1 ELSE 0

\* a close() that lets the exception of driver.quit() through
CloseUnguarded(d, quit_ok) ==
    [ driver |-> IF quit_ok THEN "quit"
                 ELSE IF d = "open" THEN "quit_failed" ELSE d,
      raised |-> ~ quit_ok ]

\* close(): driver.quit() inside try / except Exception
Close(d, quit_ok) ==
    [ driver |-> IF quit_ok THEN "quit"
                 ELSE IF d = "open" THEN "quit_failed" ELSE d,
      raised |-> FALSE ]

\* the two calls of close() that end a process: the finally block of
\* download_all_tf_families, then the finally block of main().  What the
\* first one raises is caught by the except blocks of main(); what the
\* second one raises leaves main()
CloseTwice(d, quit_ok1, quit_ok2) ==
    LET first == Close(d, quit_ok1)
        second == Close(first.driver, quit_ok2)
    IN  [ driver |-> second.driver,
          pc |-> IF second.raised THEN "crashed" ELSE "exited" ]

\* the return of download_all_tf_families, up to its finally block, and
\* the message main() logs for the returned number
FinishRun ==
    /\ \/ pc = "families" /\ i > Len(tf_links)
       \/ pc = "finish"
    /\ pc' = "closing"
    /\ main_log' = MainLog(successful_downloads)
    /\ ExitedLocals
    /\ UNCHANGED << progress_file, completed_file, run, driver, max_tfs,
                    successful_downloads, failed_now, failed_before, downloaded_now,
                    all_links, calls,
                    recorded, load_info, summary_vars, write_vars, report_vars >>

\* KeyboardInterrupt: no except Exception catches it, and it unwinds to the
\* finally block of download_all_tf_families; main() logs the interruption
Interrupt ==
    /\ pc \in { "start", "families", "items", "back", "finish" }
    /\ pc' = "closing"
    /\ successful_downloads' = 0
    /\ main_log' = "interrupted"
    /\ ExitedLocals
    /\ UNCHANGED << progress_file, completed_file, run, driver, max_tfs, failed_now,
                    failed_before, downloaded_now, all_links, calls, recorded, load_info,
                    summary_vars, write_vars, report_vars >>

\* the finally blocks: close() in download_all_tf_families, then close() in
\* main(), and the end of the process
CloseDriver ==
    /\ pc = "closing"
    /\ \E quit_ok1 \in BOOLEAN, quit_ok2 \in BOOLEAN :
          LET closed == CloseTwice(driver, quit_ok1, quit_ok2)
          IN  pc' = closed.pc /\ driver' = closed.driver
    /\ UNCHANGED << progress_file, completed_file, run, max_tfs, completed_tfs,
                    progress_data, tf_links, i, view_links, j, family_results,
                    species_downloads, successful_downloads, item_exc, family_exc,
                    listing_ok, failed_now, failed_before, downloaded_now, main_log, all_links, calls, recorded,
                    load_info, summary_vars, write_vars, report_vars >>

\* the program is started again on the same output directory
Restart ==
    /\ pc = "exited"
    /\ run < MaxRuns
    /\ run' = run + 1
    /\ pc' = "start"
    /\ driver' = "open"
    /\ max_tfs' = NoCap
    /\ successful_downloads' = 0
    /\ failed_before' = failed_before \cup failed_now
    /\ failed_now' = {}
    /\ downloaded_now' = FALSE
    /\ main_log' = "none"
    /\ UNCHANGED << progress_file, completed_file, completed_tfs, progress_data,
                    tf_links, i, view_links, j, family_results, species_downloads,
                    item_exc, family_exc, listing_ok, all_links, calls, recorded,
                    load_info, summary_vars, write_vars, report_vars >>

Next ==
    \/ StartRun
    \/ EnterFamily
    \/ ProcessItem
    \/ FinishFamily
    \/ ReturnToListing
    \/ FinishRun
    \/ Interrupt
    \/ CloseDriver
    \/ Restart

Spec == Init /\ [][Next]_vars

-----------------------------------------------------------------------------
(* The store alone: its operations applied in any order, starting from     *)
(* files that are missing or cannot be read                                *)

\* the family names and work items the store operations are applied to
StoreFamilies == { FamA, FamB }

StoreItems ==
    { [ tf_name |-> TfAraC, species_name |-> SpEcoli, tf_family |-> FamA ],
      [ tf_name |-> TfXylS, species_name |-> SpPputida, tf_family |-> FamA ],
      [ tf_name |-> TfLexA, species_name |-> SpEcoli, tf_family |-> FamB ] }

InitStore ==
    /\ progress_file \in { MissingProgress, CorruptProgress }
    /\ completed_file \in { MissingLedger, CorruptLedger }
    /\ pc = "store"
    /\ run = 1
    /\ driver = "open"
    /\ FreshLocals
    /\ failed_now = {}
    /\ failed_before = {}
    /\ downloaded_now = FALSE
    /\ main_log = "none"
    /\ all_links = ListingLinks
    /\ StoreIdle
    /\ SummaryIdle
    /\ WriteIdle
    /\ ReportIdle

\* save_progress(tf_name, "completed") or save_progress(tf_name, "error", {...})
StoreSaveProgress ==
    /\ calls < MaxCalls
    /\ \E tf_name \in StoreFamilies,
          call \in { [ status |-> "completed", details |-> NoDetails ],
                     [ status |-> "error", details |-> ErrorDetails ] } :
          LET saved == SaveProgress(progress_file, completed_file, tf_name,
                                    call.status, call.details)
          IN  /\ progress_file' = saved.progress_file
              /\ completed_file' = saved.completed_file
              /\ recorded' = IF call.status = "completed"
                             THEN recorded \cup { tf_name } ELSE recorded
    /\ calls' = calls + 1
    /\ UNCHANGED << crawl_vars, completed_tfs, progress_data, load_info, summary_vars, write_vars, report_vars >>

\* save_motif_progress(tf_name, species_name, status, details)
StoreSaveMotifProgress ==
    /\ calls < MaxCalls
    /\ \E item \in StoreItems, status \in { "completed", "no_export", "no_data" },
          with_family \in BOOLEAN :
          LET saved == SaveMotifProgress(progress_file, completed_file,
                                         item.tf_name, item.species_name, status,
                                         IF with_family
                                         THEN MotifDetails(item.tf_family)
                                         ELSE NoMotifDetails)
          IN  /\ progress_file' = saved.progress_file
              /\ completed_file' = saved.completed_file
    /\ calls' = calls + 1
    /\ UNCHANGED << crawl_vars, completed_tfs, progress_data, recorded, load_info,
                    summary_vars, write_vars, report_vars >>

\* load_progress()
StoreLoadProgress ==
    /\ LET loaded == LoadProgress(progress_file, completed_file)
       IN  /\ completed_tfs' = loaded.completed_tfs
           /\ progress_data' = loaded.progress_data
           /\ load_info' = [ done |-> TRUE, raised |-> loaded.raised,
                             progress_kind |-> progress_file.kind,
                             ledger_kind |-> completed_file.kind ]
    /\ UNCHANGED << progress_file, completed_file, crawl_vars, calls, recorded,
                    summary_vars, write_vars, report_vars >>

NextStore ==
    \/ StoreSaveProgress
    \/ StoreSaveMotifProgress
    \/ StoreLoadProgress

SpecStore == InitStore /\ [][NextStore]_vars

-----------------------------------------------------------------------------
(* get_resume_summary alone, applied to any completed set and any          *)
(* discovered name list                                                    *)

FamD == << "O","x","y","R" >>

SummaryNames == { FamA, FamB, FamC, FamD }

\* the sequences over S of length n
SeqsOfLen(S, n) == [ 1..n -> S ]

SummaryLists == UNION { SeqsOfLen(SummaryNames, n) : n \in 0..MaxLen }

\* the progress mappings get_resume_summary is given: the empty one, and
\* one with a family entry written by save_motif_progress and a family entry
\* written by save_progress
SummaryProgress ==
    { EmptyMap,
      SaveProgress(
          SaveMotifProgress(MissingProgress, MissingLedger, TfAraC, SpEcoli,
                            "completed", MotifDetails(FamA)).progress_file,
          MissingLedger, FamB, "error", ErrorDetails).progress_file.data }

InitSummary ==
    /\ sum_in \in [ completed : SUBSET SummaryNames, all_tf_names : SummaryLists ]
    /\ sum_out = [ raised |-> FALSE, remaining |-> << >>, written |-> {} ]
    /\ sum_calls = 0
    /\ progress_file = MissingProgress
    /\ completed_file = MissingLedger
    /\ pc = "summary"
    /\ run = 1
    /\ driver = "open"
    /\ max_tfs = NoCap
    /\ completed_tfs = {}
    /\ progress_data \in SummaryProgress
    /\ tf_links = << >>
    /\ i = 1
    /\ view_links = << >>
    /\ j = 1
    /\ family_results = << >>
    /\ species_downloads = 0
    /\ successful_downloads = 0
    /\ item_exc = "none"
    /\ family_exc = "none"
    /\ listing_ok = FALSE
    /\ failed_now = {}
    /\ failed_before = {}
    /\ downloaded_now = FALSE
    /\ main_log = "none"
    /\ all_links = ListingLinks
    /\ StoreIdle
    /\ WriteIdle
    /\ ReportIdle

\* get_resume_summary(completed_tfs, all_tf_names, progress_data), called a
\* first and a second time with the same arguments
GetResumeSummary ==
    /\ sum_calls < 2
    /\ \E out \in { ResumeSummary(sum_in.completed, sum_in.all_tf_names,
                                   progress_data) } :
          /\ sum_out' = [ raised |-> out.raised, remaining |-> out.remaining,
                          written |-> out.written ]
          /\ sum_in' = [ completed |-> out.completed_tfs,
                         all_tf_names |-> out.all_tf_names ]
          /\ progress_data' = out.progress_data
    /\ sum_calls' = sum_calls + 1
    /\ UNCHANGED << progress_file, completed_file, crawl_vars, completed_tfs,
                    calls, recorded, load_info, write_vars, report_vars >>

\* the caps the selection is made with: None, and numbers of families
SelectCaps == { NoCap, 1, 2 }

\* the selection of find_and_click_tf_family_links: the remaining names
\* from get_resume_summary, the filter of the discovered links, the cap.
\* When get_resume_summary raises, the except block of the method returns 0
\* and no family is selected.
SelectRemaining ==
    /\ pc = "summary"
    /\ \E cap \in SelectCaps :
          LET summary == ResumeSummary(sum_in.completed, sum_in.all_tf_names,
                                       progress_data)
          IN  /\ max_tfs' = cap
              /\ tf_links' = IF summary.raised THEN << >>
                             ELSE Cap(KeepRemaining(sum_in.all_tf_names,
                                                    summary.remaining), cap)
    /\ pc' = "selected"
    /\ UNCHANGED << progress_file, completed_file, run, driver, completed_tfs,
                    progress_data, i, view_links, j, family_results,
                    species_downloads, successful_downloads, item_exc, family_exc,
                    listing_ok, failed_now, failed_before, downloaded_now, main_log, all_links, calls, recorded,
                    load_info, summary_vars, write_vars, report_vars >>

NextSummary ==
    \/ GetResumeSummary
    \/ SelectRemaining

SpecSummary == InitSummary /\ [][NextSummary]_vars

-----------------------------------------------------------------------------
(* The write of the progress document, step by step: save_progress and     *)
(* save_motif_progress build the new document in memory, open the file     *)
(* with mode "w" (which truncates it), then json.dump into it.  The        *)
(* process may be killed between any two steps; the next process starts    *)
(* with load_progress.                                                     *)

InitWrite ==
    /\ progress_file = MissingProgress
    /\ completed_file = MissingLedger
    /\ pc = "w_idle"
    /\ run = 1
    /\ driver = "open"
    /\ FreshLocals
    /\ failed_now = {}
    /\ failed_before = {}
    /\ downloaded_now = FALSE
    /\ main_log = "none"
    /\ all_links = ListingLinks
    /\ StoreIdle
    /\ SummaryIdle
    /\ WriteIdle
    /\ ReportIdle

\* the first part of save_progress or save_motif_progress: the existing
\* document is read and the update is applied to it in memory
WriteBegin ==
    /\ pc \in { "w_idle", "w_recovered" }
    /\ calls < MaxCalls
    /\ \/ \E tf_name \in StoreFamilies,
             call \in { [ status |-> "completed", details |-> NoDetails ],
                        [ status |-> "error", details |-> ErrorDetails ] } :
             LET saved == SaveProgress(progress_file, completed_file, tf_name,
                                       call.status, call.details)
             IN  pending' = [ active |-> TRUE, before |-> progress_file,
                              data |-> saved.progress_file.data,
                              ledger |-> saved.completed_file,
                              op |-> "save_progress", tf_family |-> tf_name,
                              motif_key |-> << >> ]
       \/ \E item \in StoreItems, status \in { "completed", "no_export", "no_data" } :
             LET saved == SaveMotifProgress(progress_file, completed_file,
                                            item.tf_name, item.species_name, status,
                                            MotifDetails(item.tf_family))
             IN  pending' = [ active |-> TRUE, before |-> progress_file,
                              data |-> saved.progress_file.data,
                              ledger |-> saved.completed_file,
                              op |-> "save_motif_progress",
                              tf_family |-> item.tf_family,
                              motif_key |-> MotifKey(item.tf_name, item.species_name) ]
    /\ pc' = "w_open"
    /\ calls' = calls + 1
    /\ UNCHANGED << progress_file, completed_file, run, driver, max_tfs,
                    completed_tfs, progress_data, tf_links, i, view_links, j,
                    family_results, species_downloads, successful_downloads,
                    item_exc, family_exc, listing_ok, failed_now, failed_before, downloaded_now, main_log, all_links,
                    recorded, load_info, summary_vars, report_vars >>

\* open(self.progress_file, "w"): the file exists and is empty, and stays
\* unparseable while json.dump has written only a part of the document
WriteTruncate ==
    /\ pc = "w_open"
    /\ progress_file' = CorruptProgress
    /\ pc' = "w_dump"
    /\ UNCHANGED << completed_file, run, driver, max_tfs,
                    completed_tfs, progress_data, tf_links, i, view_links, j,
                    family_results, species_downloads, successful_downloads,
                    item_exc, family_exc, listing_ok, failed_now, failed_before, downloaded_now, main_log, all_links,
                    calls, recorded, load_info, summary_vars, write_vars,
                    report_vars >>

\* json.dump(progress_data, f, indent=2) and the end of the with block
WriteDump ==
    /\ pc = "w_dump"
    /\ progress_file' = [ kind |-> "dict", data |-> pending.data ]
    /\ pc' = "w_ledger"
    /\ UNCHANGED << completed_file, run, driver, max_tfs,
                    completed_tfs, progress_data, tf_links, i, view_links, j,
                    family_results, species_downloads, successful_downloads,
                    item_exc, family_exc, listing_ok, failed_now, failed_before, downloaded_now, main_log, all_links,
                    calls, recorded, load_info, summary_vars, write_vars,
                    report_vars >>

\* the end of the call: save_progress(..., "completed") appends the name to
\* the ledger, every other call returns
WriteLedger ==
    /\ pc = "w_ledger"
    /\ completed_file' = pending.ledger
    /\ pending' = NoWrite
    /\ pc' = "w_idle"
    /\ UNCHANGED << progress_file, run, driver, max_tfs,
                    completed_tfs, progress_data, tf_links, i, view_links, j,
                    family_results, species_downloads, successful_downloads,
                    item_exc, family_exc, listing_ok, failed_now, failed_before, downloaded_now, main_log, all_links,
                    calls, recorded, load_info, summary_vars, report_vars >>

\* the process is killed while a write is under way
WriteCrash ==
    /\ pc \in { "w_open", "w_dump", "w_ledger" }
    /\ pc' = "w_crashed"
    /\ UNCHANGED << progress_file, completed_file, run, driver, max_tfs,
                    completed_tfs, progress_data, tf_links, i, view_links, j,
                    family_results, species_downloads, successful_downloads,
                    item_exc, family_exc, listing_ok, failed_now, failed_before, downloaded_now, main_log, all_links,
                    calls, recorded, load_info, summary_vars, write_vars,
                    report_vars >>

\* the next process: load_progress()
WriteRecover ==
    /\ pc = "w_crashed"
    /\ LET loaded == LoadProgress(progress_file, completed_file)
       IN  /\ completed_tfs' = loaded.completed_tfs
           /\ progress_data' = loaded.progress_data
    /\ run' = run + 1
    /\ pc' = "w_recovered"
    /\ UNCHANGED << progress_file, completed_file, driver, max_tfs,
                    tf_links, i, view_links, j,
                    family_results, species_downloads, successful_downloads,
                    item_exc, family_exc, listing_ok, failed_now, failed_before, downloaded_now, main_log, all_links,
                    calls, recorded, load_info, summary_vars, write_vars,
                    report_vars >>

NextWrite ==
    \/ WriteBegin
    \/ WriteTruncate
    \/ WriteDump
    \/ WriteLedger
    \/ WriteCrash
    \/ WriteRecover

SpecWrite == InitWrite /\ [][NextWrite]_vars

-----------------------------------------------------------------------------
(* One work item after the other: the body of the item loop of             *)
(* process_tf_species_page on any report page, with any outcome of the     *)
(* download and any step raising                                           *)

\* what happens around a call: the step that raises and the download the
\* click causes.  Before the click: a step raises or none does
EnvsBeforeClick ==
    [ fail : { "none", "source", "tab_click", "click" }, download : { "none" },
      content : { ContentOne } ]

\* one download that succeeds
EnvsOneDownload ==
    [ fail : { "none" }, download : { "ready" }, content : { ContentOne } ]

\* after the click: no file or a file that stays partial, or a file with
\* any of the contents that is complete at the first poll or later, and any
\* later step raising
EnvsAfterClick ==
    [ fail : { "none", "read" } \cup SaveFailures,
      download : { "none", "stalled" }, content : { ContentOne } ]
    \cup [ fail : { "none", "read" } \cup SaveFailures,
           download : { "late", "ready" }, content : FileContents ]

\* the pages with the calls made on them: every page with every step before
\* the click raising and with one download, the page with the direct link
\* with every outcome after the click as well
ReportInputs ==
    [ page : 1..Len(ReportPages), env : EnvsBeforeClick \cup EnvsOneDownload ]
    \cup [ page : { 3 }, env : EnvsAfterClick ]

\* what happens around the calls for the second work item: a download that
\* is complete at the first poll or later, and the read of it raising or not
EnvsSecondItem ==
    [ fail : { "none", "read" }, download : { "late", "ready" },
      content : { ContentOne, ContentTwo } ]

\* the calls of the item loop: the first work item of the family page on
\* every page with every input, the second one on the page with the direct
\* link, and the two work items with colliding names on the page without
\* export and on the page with the direct link
ReportCalls ==
    [ view_link : { ViewLinks(FamA)[1] }, input : ReportInputs ]
    \cup [ view_link : { ViewLinks(FamA)[2] },
           input : [ page : { 3 }, env : EnvsSecondItem ] ]
    \cup [ view_link : CollidingItems,
           input : [ page : { 1, 3 }, env : EnvsOneDownload ] ]

InitReport ==
    /\ progress_file = MissingProgress
    /\ completed_file = MissingLedger
    /\ pc = "report"
    /\ run = 1
    /\ driver = "open"
    /\ FreshLocals
    /\ failed_now = {}
    /\ failed_before = {}
    /\ downloaded_now = FALSE
    /\ main_log = "none"
    /\ all_links = ListingLinks
    /\ StoreIdle
    /\ SummaryIdle
    /\ WriteIdle
    /\ ReportIdle

\* result = self.process_motif_report_page(view_link) and the
\* save_motif_progress that follows it
ProcessReport ==
    /\ pc = "report"
    /\ attempts < MaxAttempts
    /\ \E call \in ReportCalls :
          \E out \in { ProcessMotifReportPage(call.view_link,
                                              ReportPages[call.input.page],
                                              call.input.env, download_dir,
                                              matrices_dir, metadata_dir) } :
          LET view_link == call.view_link
              p == call.input.page
              env == call.input.env
              saved == SaveMotifProgress(progress_file, completed_file,
                                         view_link.tf_name, view_link.species_name,
                                         PersistedStatus(out.result),
                                         MotifDetails(view_link.tf_family))
          IN  /\ download_dir' = out.download_dir
              /\ matrices_dir' = out.matrices_dir
              /\ metadata_dir' = out.metadata_dir
              /\ report' = [ done |-> TRUE, page |-> p,
                             source_ok |-> env.fail # "source",
                             result |-> out.result, strategy |-> out.strategy,
                             clicks |-> out.clicks, waited |-> out.waited,
                             read |-> out.read, saved |-> out.saved,
                             tf_id |-> view_link.tf_id,
                             species_id |-> view_link.species_id,
                             filename |-> out.filename, content |-> out.content,
                             previous |-> out.previous, polls |-> out.polls,
                             returned |-> out.returned, own |-> out.own ]
              /\ progress_file' = saved.progress_file
              /\ completed_file' = saved.completed_file
    /\ attempts' = attempts + 1
    /\ UNCHANGED << crawl_vars, completed_tfs, progress_data, calls, recorded,
                    load_info, summary_vars, write_vars >>

NextReport == ProcessReport

SpecReport == InitReport /\ [][NextReport]_vars

-----------------------------------------------------------------------------
(* The discovery specification: the filter of find_and_click_tf_family_links *)
(* applied to listing pages whose link texts are drawn from LinkTexts        *)

\* sixteen characters: a letter and fifteen more
Name16 ==
    << "A","r","a","C","/","X","y","l","S","/","L","u","x","R","1","2" >>

\* seventeen characters: a letter and sixteen more
Name17 == Name16 \o << "3" >>

\* twenty characters
Name20 == Name17 \o << "/","A","b" >>

\* twenty-one characters
Name21 == Name20 \o << "c" >>

\* link texts as link.text gives them, before strip()
LinkTexts ==
    { TextHome, FamA, << " ","L","e","x","A","\n" >>, << "A" >>,
      << "2","F","u","r" >>, << "A","r","_","C" >>,
      Name16, Name17, Name20, Name21 }

\* the largest number of links of a listing page
MaxLinks == 2

ListingPages == UNION { [ 1..n -> LinkTexts ] : n \in 0..MaxLinks }

InitDiscover ==
    /\ progress_file = MissingProgress
    /\ completed_file = MissingLedger
    /\ pc = "discover"
    /\ run = 1
    /\ driver = "open"
    /\ FreshLocals
    /\ failed_now = {}
    /\ failed_before = {}
    /\ downloaded_now = FALSE
    /\ main_log = "none"
    /\ all_links \in ListingPages
    /\ StoreIdle
    /\ SummaryIdle
    /\ WriteIdle
    /\ ReportIdle

\* the loop over all_links that fills tf_links
DiscoverLinks ==
    /\ pc = "discover"
    /\ tf_links' = TFLinkNames(all_links)
    /\ pc' = "discovered"
    /\ UNCHANGED << progress_file, completed_file, run, driver, max_tfs,
                    completed_tfs, progress_data, i, view_links, j,
                    family_results, species_downloads, successful_downloads,
                    item_exc, family_exc, listing_ok, failed_now, failed_before,
                    downloaded_now, main_log, all_links, calls, recorded,
                    load_info, summary_vars, write_vars, report_vars >>

NextDiscover == DiscoverLinks

SpecDiscover == InitDiscover /\ [][NextDiscover]_vars

-----------------------------------------------------------------------------
(* Properties *)

\* the work-item records persisted under a family
ReportsOf(data, tf_family) ==
    IF tf_family \in DOMAIN data
    THEN data[tf_family].details.motif_reports ELSE EmptyMap

KeyOf(view_link) == MotifKey(view_link.tf_name, view_link.species_name)

\* the families of the listing, in discovery order
ListedFamilies == TFLinkNames(ListingLinks)

\* C1: in every persisted progress state, a family that has work-item records
\* has status "completed" if and only if every work item recorded under it has
\* status "completed".
C1_CompletionInvariant ==
    \A tf_family \in DOMAIN progress_file.data :
        LET reports == ReportsOf(progress_file.data, tf_family)
        IN  DOMAIN reports # {} =>
               (progress_file.data[tf_family].status = "completed"
                   <=> AllCompleted(reports))

\* C2: in a first run interrupted in the item loop of a family after N of its M
\* work items were processed, load_progress shows exactly N work items recorded
\* under the family, and the family is "completed" only if N = M.
C2_CrashSafety ==
    (run = 1 /\ pc = "items") =>
        LET loaded == LoadProgress(progress_file, completed_file).progress_data
            tf_family == tf_links[i]
            n == j - 1
            m == Len(view_links)
        IN  /\ Cardinality(DOMAIN ReportsOf(loaded, tf_family)) = n
            /\ (tf_family \in DOMAIN loaded /\ loaded[tf_family].status = "completed")
                  => n = m

\* C3: whenever get_resume_summary returns, its result is exactly the
\* subsequence of the discovered names that are not in the completed set, in
\* discovery order; ledger {A, C} and discovery [A, B, C, D] give [B, D]; a
\* second call with the same arguments gives the same result.
C3_RemainingIsOrderedDifference ==
    (sum_calls >= 1 /\ ~ sum_out.raised) =>
        LET a == sum_in.all_tf_names
            c == sum_in.completed
            r == sum_out.remaining
            kept == { k \in 1..Len(a) : a[k] \notin c }
        IN  /\ Len(r) = Cardinality(kept)
            /\ \A k \in kept : r[Cardinality({ x \in kept : x <= k })] = a[k]
            /\ (a = << FamA, FamB, FamC, FamD >> /\ c = { FamA, FamC })
                  => r = << FamB, FamD >>

\* C3 witness: the second call on ledger {A, C} and discovery [A, B, C, D]
\* has returned [B, D].
C3_Witness ==
    /\ sum_calls = 2
    /\ sum_in.all_tf_names = << FamA, FamB, FamC, FamD >>
    /\ sum_in.completed = { FamA, FamC }
    /\ sum_out.remaining = << FamB, FamD >>

\* every discovered work item of the family is recorded as completed
AllItemsCompleted(data, tf_family) ==
    /\ ViewLinks(tf_family) # << >>
    /\ \A k \in 1..Len(ViewLinks(tf_family)) :
          LET key == KeyOf(ViewLinks(tf_family)[k])
          IN  /\ key \in DOMAIN ReportsOf(data, tf_family)
              /\ ReportsOf(data, tf_family)[key].status = "completed"

\* C4: once every work item of a family is recorded as completed, the family
\* has status "completed", its name is in the ledger that load_progress
\* returns, and it is not in the remaining work of the next run.
C4_CompletedFamilyInLedger ==
    \A tf_family \in Range(ListedFamilies) :
        AllItemsCompleted(progress_file.data, tf_family) =>
            LET loaded == LoadProgress(progress_file, completed_file)
            IN  /\ progress_file.data[tf_family].status = "completed"
                /\ tf_family \in loaded.completed_tfs
                /\ tf_family \notin Range(Remaining(ListedFamilies, loaded.completed_tfs))

\* the work item is recorded as completed or no_export in the progress data
Settled(data, view_link) ==
    /\ KeyOf(view_link) \in DOMAIN ReportsOf(data, view_link.tf_family)
    /\ ReportsOf(data, view_link.tf_family)[KeyOf(view_link)].status
          \in { "completed", "no_export" }

\* C5: a work item that the checkpoint loaded at the start of the run records
\* as completed or no_export is not navigated to and processed in the run.
C5_SettledNotReattempted ==
    (pc = "items" /\ j > 1 /\ item_exc # "get")
        => ~ Settled(progress_data, view_links[j - 1])

\* C6: a work item that ended Failed does not put its family into the
\* completed ledger; in a later run without a cap its family is among the
\* families selected for processing, and when that family's page is processed
\* the item is among the work items attempted.
C6_FailedIsRetried ==
    /\ \A item \in failed_now \cup failed_before :
          item.tf_family \notin LoadProgress(progress_file, completed_file).completed_tfs
    /\ \A item \in failed_before :
          /\ (pc \in { "families", "items", "back" } /\ max_tfs = NoCap)
                => item.tf_family \in Range(tf_links)
          /\ (pc = "items" /\ tf_links[i] = item.tf_family)
                => \E k \in 1..Len(view_links) : ItemId(view_links[k]) = item

\* C6 witness: a work item that ended Failed in an earlier run has just been
\* attempted again.
C6_Witness ==
    /\ pc = "items"
    /\ j > 1
    /\ ItemId(view_links[j - 1]) \in failed_before

\* C7: every work item attempted so far in the item loop has a persisted
\* outcome in the progress store.
C7_AttemptedItemPersisted ==
    pc = "items" =>
        \A k \in 1..(j - 1) :
            KeyOf(view_links[k])
                \in DOMAIN ReportsOf(progress_file.data, view_links[k].tf_family)

\* C8: when an exception was raised while a work item was processed, the item
\* is classified Failed: every result tracked for it says "failed".
C8_ExceptionMeansFailed ==
    (pc = "items" /\ j > 1 /\ item_exc # "none") =>
        \A k \in 1..Len(family_results) :
            ( /\ family_results[k].tf_name = view_links[j - 1].tf_name
              /\ family_results[k].species_name = view_links[j - 1].species_name )
                => family_results[k].status = "failed"

\* C9: load_progress never raises, and for a ledger or a progress file that
\* is missing or cannot be read it returns the empty set or the empty mapping.
C9_LoadNeverRaises ==
    load_info.done =>
        /\ ~ load_info.raised
        /\ load_info.ledger_kind # "text" => completed_tfs = {}
        /\ load_info.progress_kind # "dict" => progress_data = EmptyMap

\* C9 witness: load_progress has returned from a ledger and a progress file
\* that both exist and cannot be read.
C9_Witness ==
    /\ load_info.done
    /\ load_info.ledger_kind = "corrupt"
    /\ load_info.progress_kind = "corrupt"
    /\ completed_tfs = {}
    /\ progress_data = EmptyMap

\* the number of ledger lines that hold the name
LedgerCount(cf, tf_name) ==
    Cardinality({ k \in 1..Len(cf.lines) : Strip(cf.lines[k]) = tf_name })

\* C10: with a readable ledger, the completed set load_progress returns is the
\* set of the names recorded as completed, however often each was recorded.
C10_CompletedIdempotent ==
    completed_file.kind # "corrupt" =>
        LET loaded == LoadProgress(progress_file, completed_file).completed_tfs
        IN  loaded = recorded

\* C10 witness: a name was recorded as completed twice, and load_progress has
\* returned a set that holds it.
C10_Witness ==
    /\ load_info.done
    /\ \E tf_name \in recorded :
          /\ LedgerCount(completed_file, tf_name) >= 2
          /\ tf_name \in completed_tfs
          /\ completed_tfs = recorded


\* C12: on every exit path (normal completion, a failed first navigation, an
\* exception in the crawl, an interrupt at any point of the run) the process
\* ends with driver.quit() invoked, and a failing quit does not propagate:
\* no process ends with an exception leaving main().
C12_BrowserReleased ==
    /\ pc # "crashed"
    /\ pc = "exited" => driver \in { "quit", "quit_failed" }

\* a process that ended although driver.quit() raised both times
C12_Witness == pc = "exited" /\ driver = "quit_failed" /\ run = 2

\* C17: when a family fails at the family level (click() on its link raises,
\* or process_tf_species_page raises on its page), the family is persisted
\* with status "error" and an error detail, and is not in the ledger.
C17_FamilyFailurePersisted ==
    family_exc \in { "click", "page" } =>
        LET tf_name == IF family_exc = "click" THEN tf_links[i - 1] ELSE tf_links[i]
            data == ReadProgressOrEmpty(progress_file)
        IN  /\ tf_name \in DOMAIN data
            /\ data[tf_name].status = "error"
            /\ data[tf_name].details.error
            /\ tf_name \notin LedgerNames(completed_file)

\* C18: after a family-level failure the family loop goes on to a next
\* family only if the listing page was reached again; when it was not, the
\* run halts.
C18_HaltsWhenListingUnreachable ==
    (pc = "families" /\ i <= Len(tf_links) /\ family_exc # "none") => listing_ok

\* driver.back() raised for the item of family_results[n]: the item is
\* tracked a second time, as "failed"
BackFailedAt(results, n) ==
    /\ n >= 2
    /\ results[n].status = "failed"
    /\ results[n - 1].tf_name = results[n].tf_name
    /\ results[n - 1].species_name = results[n].species_name

\* C19: a failure to go back from a work item aborts the remaining items of
\* the family: no item of the family is attempted after it.
C19_BackFailureAbortsItems ==
    \A n \in 1..Len(family_results) :
        BackFailedAt(family_results, n) => n = Len(family_results)


\* C20: with a cap k the families selected for a run are at most k, and they
\* are the first k entries (all of them when fewer remain) of the remaining
\* sequence, in discovery order; without a cap every remaining family is
\* selected.
C20_CapSelectsFirstRemaining ==
    pc = "selected" =>
        LET rem == Remaining(sum_in.all_tf_names, sum_in.completed)
        IN  IF max_tfs = NoCap THEN tf_links = rem
            ELSE /\ Len(tf_links) = (IF max_tfs < Len(rem) THEN max_tfs ELSE Len(rem))
                 /\ \A k \in 1..Len(tf_links) : tf_links[k] = rem[k]

\* a cap of two families applied where three remain and one is completed
C20_Witness ==
    /\ pc = "selected"
    /\ max_tfs = 2
    /\ Len(tf_links) = 2
    /\ Len(Remaining(sum_in.all_tf_names, sum_in.completed)) = 3
    /\ Len(sum_in.all_tf_names) = 4


\* C11: a write of the progress document is atomic with respect to a crash:
\* the load_progress of the next process returns the full document of
\* before the update under way or the full document of after it, so no
\* record persisted earlier is lost.
C11_WriteIsCrashAtomic ==
    pc = "w_recovered" =>
        progress_data \in { ReadProgressOrEmpty(pending.before), pending.data }


\* C13: on a report page whose source lacks "Export data" or the security
\* token, process_motif_report_page clicks nothing, does not wait for a
\* download and reads none, and its result is "no_export" (whenever the page
\* source could be read at all).
C13_NoExportWithoutClick ==
    LET page == ReportPages[report.page]
    IN  (report.done /\ ~ (page.export_data /\ page.csrf)) =>
            /\ report.clicks = << >>
            /\ ~ report.waited
            /\ ~ report.read
            /\ ~ report.saved
            /\ report.source_ok => report.result = "no_export"

\* a page without the token answered "no_export" while a complete file lay
\* in the download directory
C13_Witness ==
    /\ report.done
    /\ ReportPages[report.page] = PageNoToken
    /\ report.result = "no_export"
    /\ download_dir # << >>

\* no strategy finds a download control: no link text contains
\* "Download PSFM" and no table cell contains "raw FASTA format"
NoStrategyResolves(page) ==
    /\ \A k \in 1..Len(page.links) : ~ Contains(page.links[k].text, PatternPsfm)
    /\ \A k \in 1..Len(page.cells) : ~ Contains(page.cells[k].text, TextRawFastaFormat)

\* C14: on a page with both markers on which no strategy finds a download
\* control, the result is "failed" (not "completed", not "no_export"), and
\* nothing is waited for or saved.
C14_NoControlMeansFailed ==
    LET page == ReportPages[report.page]
    IN  ( /\ report.done
          /\ report.source_ok
          /\ page.export_data /\ page.csrf
          /\ NoStrategyResolves(page) ) =>
            /\ report.result = "failed"
            /\ ~ report.waited
            /\ ~ report.saved

\* the "Export data" tab was clicked, then no control was found
C14_Witness ==
    /\ report.done
    /\ ReportPages[report.page] = PageNoControl
    /\ report.clicks = << TextExportData >>
    /\ report.result = "failed"

\* C15: the file name is a function of the work item and of the content: a
\* save whose content differs from the content saved before for the same
\* work item goes to a different file, so a matrix file is never
\* overwritten with different content.
C15_ContentDeterminesFilename ==
    ( /\ report.done
      /\ report.saved
      /\ report.result = "completed"
      /\ report.previous \notin { NoFile, Truncated } ) =>
        report.previous = report.content

\* C16: a work item recorded as completed has its matrix file and the
\* metadata file of that matrix file, both written in full.
C16_CompletedHasBothFiles ==
    \A view_link \in ReportItems :
        LET reports == ReportsOf(ReadProgressOrEmpty(progress_file), view_link.tf_family)
        IN  ( /\ KeyOf(view_link) \in DOMAIN reports
              /\ reports[KeyOf(view_link)].status = "completed" ) =>
                \E filename \in DOMAIN matrices_dir :
                    /\ matrices_dir[filename] # Truncated
                    /\ MetadataFilename(filename) \in DOMAIN metadata_dir
                    /\ LET metadata == metadata_dir[MetadataFilename(filename)]
                       IN  /\ metadata.parsed
                           /\ metadata.tf_id = view_link.tf_id
                           /\ metadata.species_id = view_link.species_id
                           /\ metadata.filename = filename
                           /\ metadata.content_length = Len(matrices_dir[filename])

\* a work item is recorded as completed while a matrix file of an earlier,
\* failed save lies in matrices/ without a metadata file
C16_Witness ==
    /\ report.done
    /\ report.result = "completed"
    /\ \E filename \in DOMAIN matrices_dir :
           MetadataFilename(filename) \notin DOMAIN metadata_dir

\* C21: get_resume_summary has no side effects: a call writes to none of the
\* progress file, the completed ledger and the family results log, and
\* leaves the two files, its completed set, its name list and its progress
\* mapping as they were.
C21_SummaryHasNoSideEffects ==
    [][ sum_calls' # sum_calls =>
            /\ sum_out'.written = {}
            /\ progress_file' = progress_file
            /\ completed_file' = completed_file
            /\ sum_in' = sum_in
            /\ progress_data' = progress_data ]_vars

\* get_resume_summary was called twice with a completed set, a name list and
\* a progress mapping that are not empty, and some names remain
C21_Witness ==
    /\ sum_calls = 2
    /\ sum_in.completed # {}
    /\ progress_data # EmptyMap
    /\ sum_out.remaining # << >>
    /\ Len(sum_out.remaining) < Len(sum_in.all_tf_names)

\* C22: get_resume_summary returns the remaining list without raising, for
\* every completed set, every progress mapping and every name list, the
\* empty ones included.
C22_SummaryNeverRaises ==
    sum_calls >= 1 => ~ sum_out.raised

\* C23: the process reports success if and only if a work item ended
\* Completed in the run, and reports failure otherwise: it logs the success
\* message and ends with exit status 0 in the first case, and logs the
\* failure message and ends with a status other than 0 in the second.
C23_ExitSignalReflectsDownloads ==
    pc = "exited" =>
        IF downloaded_now
        THEN main_log = "success" /\ ExitStatus(pc) = 0
        ELSE main_log = "no_downloads" /\ ExitStatus(pc) # 0

\* C24: in every persisted progress state each work-item record has a status
\* among pending, completed, no_export, failed, and each family record a
\* status among pending, in_progress, completed, error.
C24_StatusesInVocabulary ==
    LET data == ReadProgressOrEmpty(progress_file)
    IN  \A tf_family \in DOMAIN data :
            /\ data[tf_family].status \in { "pending", "in_progress", "completed", "error" }
            /\ \A key \in DOMAIN ReportsOf(data, tf_family) :
                   ReportsOf(data, tf_family)[key].status
                       \in { "pending", "completed", "no_export", "failed" }

\* C25: no family name occurs twice in the list of the families selected
\* for processing, whatever the listing links.
C25_SelectedFamiliesDistinct ==
    pc = "selected" =>
        \A a \in 1..Len(tf_links) : \A b \in 1..Len(tf_links) :
            a # b => tf_links[a] # tf_links[b]

\* the work items of the report specification
AllReportItems == ReportItems \cup CollidingItems

\* the status persisted for the work item, as a sequence: empty if the
\* progress file has no record under its key
RecordOf(pf, view_link) ==
    LET reports == ReportsOf(ReadProgressOrEmpty(pf), view_link.tf_family)
    IN  IF KeyOf(view_link) \in DOMAIN reports
        THEN << reports[KeyOf(view_link)].status >> ELSE << >>

\* C26: two work items of a family that differ in their pair of numeric ids
\* are persisted under different keys, also when their names fall back to
\* the family name and to "Unknown": recording the outcome of one work item
\* leaves the record of every work item with another pair of ids as it was.
C26_IdsSeparateRecords ==
    [][ attempts' # attempts =>
            \A other \in AllReportItems :
                << other.tf_id, other.species_id >>
                        # << report'.tf_id, report'.species_id >>
                    => RecordOf(progress_file', other) = RecordOf(progress_file, other) ]_vars

\* C27: the content saved for a work item that ended Completed is the
\* content of the file its own click downloaded, never that of a file an
\* earlier attempt left in the download directory.
C27_SavedContentIsOwnDownload ==
    (report.done /\ report.result = "completed") =>
        /\ report.own # NoDownload
        /\ report.content = Strip(report.own.content)

\* C28: wait_for_download never returns a partial download; it returns the
\* most recently modified complete file of the first poll that saw a
\* complete file; it returns no file, and the result is "failed", only when
\* no poll saw a complete file.
C28_WaitReturnsNewestComplete ==
    report.waited =>
        LET Complete(k) == { f \in report.polls[k] : ~ f.partial }
            seen == { k \in 1..Len(report.polls) : Complete(k) # {} }
        IN  /\ ~ report.returned.partial
            /\ seen # {} =>
                   LET k == CHOOSE n \in seen : \A m \in seen : n <= m
                   IN  /\ report.returned \in Complete(k)
                       /\ \A g \in Complete(k) : g.mtime <= report.returned.mtime
            /\ seen = {} => (report.returned = NoDownload /\ report.result = "failed")
            /\ report.returned = NoDownload => seen = {}

\* the first poll saw a partial download only, and the file was returned
\* once it was complete
C28_Witness ==
    /\ report.waited
    /\ report.polls[1] # {}
    /\ \A f \in report.polls[1] : f.partial
    /\ report.returned # NoDownload
    /\ report.returned = report.own

\* C29: a work item is recorded as completed only if the content read for it
\* is not empty after trimming and longer than 10 characters, and then its
\* matrix file holds that content and has its metadata file; when the content
\* read is empty or too short the result is "failed", the work item is not
\* recorded as completed and nothing is written to matrices/ and metadata/.
C29_CompletedIsValidated ==
    [][ attempts' # attempts =>
            LET item == CHOOSE v \in AllReportItems :
                            v.tf_id = report'.tf_id /\ v.species_id = report'.species_id
                recorded_status == RecordOf(progress_file', item)
                content == Strip(report'.returned.content)
                valid == content # << >> /\ Len(content) > 10
            IN  /\ recorded_status = << "completed" >> =>
                       /\ report'.read
                       /\ valid
                       /\ report'.filename \in DOMAIN matrices_dir'
                       /\ matrices_dir'[report'.filename] = content
                       /\ MetadataFilename(report'.filename) \in DOMAIN metadata_dir'
                       /\ metadata_dir'[MetadataFilename(report'.filename)].parsed
                       /\ metadata_dir'[MetadataFilename(report'.filename)].content_length
                              = Len(content)
                /\ (report'.read /\ ~ valid) =>
                       /\ report'.result = "failed"
                       /\ recorded_status # << "completed" >>
                       /\ matrices_dir' = matrices_dir
                       /\ metadata_dir' = metadata_dir ]_vars

\* a file that holds white space only was read and rejected after an
\* earlier work item had been saved
C29_Witness ==
    /\ report.done
    /\ report.read
    /\ report.returned.content = ContentBlank
    /\ report.result = "failed"
    /\ matrices_dir # EmptyMap

\* C30: the download control is resolved by ordered fallback: the strategy
\* that resolved it is the first one that resolves an element on the page,
\* and the element clicked for the download is the element it resolved.
C30_FirstResolvingStrategyIsClicked ==
    (report.done /\ report.strategy # 0 /\ report.waited) =>
        LET page == ReportPages[report.page]
            n == report.strategy
            elements == IF n <= 5 THEN page.links ELSE page.cells
        IN  /\ \A m \in 1..(n - 1) : StrategyIndex(page, m) = 0
            /\ StrategyIndex(page, n) # 0
            /\ report.clicks[Len(report.clicks)] = elements[StrategyIndex(page, n)].text

\* log_tf_family_results: the three lists the results are sorted into, as
\* the indices of the results, and the number written as TOTAL PROCESSED
LogTfFamilyResults(results) ==
    [ successful |-> { k \in 1..Len(results) : results[k].status = "completed" },
      no_export |-> { k \in 1..Len(results) : results[k].status = "no_export" },
      failed |-> { k \in 1..Len(results) :
                      results[k].status \notin { "completed", "no_export" } },
      total |-> Len(results) ]

\* C31: when the item loop of a family has ended, the family results log
\* counts each work item once: the successful, no-export and failed entries
\* sum to the number of work items discovered, also when an exception was
\* raised after the outcome of an item had been decided.
C31_LogCountsEachItemOnce ==
    (pc = "back" /\ family_exc = "none") =>
        LET logged == LogTfFamilyResults(family_results)
        IN  /\ Cardinality(logged.successful) + Cardinality(logged.no_export)
                   + Cardinality(logged.failed) = Len(view_links)
            /\ logged.total = Len(view_links)

\* the work-item records of the family in the old document are in the new
\* one with the status they had
RecordsKept(old, new, tf_family) ==
    \A key \in DOMAIN ReportsOf(old, tf_family) :
        /\ key \in DOMAIN ReportsOf(new, tf_family)
        /\ ReportsOf(new, tf_family)[key].status = ReportsOf(old, tf_family)[key].status

\* C32: recording a family-level outcome keeps the work-item records of the
\* family: when the click on the family link raises and the family is
\* recorded as "error", every work-item record persisted for it before is
\* still in the progress file with its status.
C32_FamilyOutcomeKeepsRecords ==
    [][ (pc = "families" /\ i' = i + 1 /\ family_exc' = "click") =>
            RecordsKept(ReadProgressOrEmpty(progress_file),
                        ReadProgressOrEmpty(progress_file'), tf_links[i]) ]_vars

\* the entry of the family in the document, as a sequence: empty if the
\* document has none
EntryOf(data, tf_family) ==
    IF tf_family \in DOMAIN data THEN << data[tf_family] >> ELSE << >>

\* C33: store updates are local to one family.  When the progress file could
\* be read, the document save_progress or save_motif_progress writes for
\* family F holds every other family with the entry it had and no family
\* that is neither F nor in the file before; and the document
\* save_motif_progress writes for one work item holds every other work-item
\* record of F as it was.
C33_UpdatesAreLocal ==
    (pc = "w_ledger" /\ pending.before.kind = "dict") =>
        LET old == pending.before.data
            new == progress_file.data
            F == pending.tf_family
        IN  /\ progress_file.kind = "dict"
            /\ DOMAIN new = (DOMAIN old) \cup { F }
            /\ \A G \in (DOMAIN old) \ { F } : EntryOf(new, G) = EntryOf(old, G)
            /\ pending.op = "save_motif_progress" =>
                   /\ DOMAIN ReportsOf(new, F)
                          = (DOMAIN ReportsOf(old, F)) \cup { pending.motif_key }
                   /\ \A key \in (DOMAIN ReportsOf(old, F)) \ { pending.motif_key } :
                          ReportsOf(new, F)[key] = ReportsOf(old, F)[key]

\* save_motif_progress has written a work item of a family that had another
\* work-item record, into a file that held another family with a record
C33_Witness ==
    /\ pc = "w_ledger"
    /\ pending.op = "save_motif_progress"
    /\ pending.before.kind = "dict"
    /\ \E key \in DOMAIN ReportsOf(pending.before.data, pending.tf_family) :
          key # pending.motif_key
    /\ \E G \in DOMAIN pending.before.data :
          /\ G # pending.tf_family
          /\ ReportsOf(pending.before.data, G) # EmptyMap

\* C34: family discovery keeps a link exactly if its name is 2 to 20
\* characters long, is not a stop word in any case, and is a letter followed
\* by at most 16 characters that are letters, digits or "/"; the names kept
\* are in listing order.
C34_DiscoveryFilter ==
    pc = "discovered" =>
        LET names == [ k \in 1..Len(all_links) |-> Strip(all_links[k]) ]
            Kept(text) ==
                /\ Len(text) >= 2
                /\ Len(text) <= 20
                /\ Lower(text) \notin skip_words
                /\ IsLetter(text[1])
                /\ Len(text) - 1 <= 16
                /\ \A k \in 2..Len(text) :
                      IsLetter(text[k]) \/ text[k] \in Digits \/ text[k] = "/"
        IN  tf_links = SelectSeq(names, Kept)

=============================================================================
